---- MODULE Spec2Model ----
(***************************************************************************)
(* Model of lukeod/gosmi: the hand-written MIB lexer                       *)
(* (parser/lexer/lexer.go) and the MIB tree loader (parser/parser.go).     *)
(*                                                                         *)
(* The input of a lexer is a sequence of bytes.  A byte is a string: an    *)
(* ASCII byte is the one-character string of that character, a byte >=     *)
(* 0x80 is written "xHH".  A rune is the sequence of the bytes of its       *)
(* UTF-8 encoding, so that utf8.DecodeRuneInString is modelled by what it  *)
(* does on the bytes.                                                      *)
(***************************************************************************)
EXTENDS Integers, Sequences, FiniteSets, TLC

VARIABLES
    l,          \* the Lexer struct (lexer.go:20-33)
    tok,        \* the token the last call of Next() returned
    prev,       \* the token the call before that returned
    calls,      \* what the caller has seen: "none", "token" or "panic"
    lexStart,   \* where the lexeme of tok starts in the input (for the claims)
    parity,     \* the number of calls of Next() made so far, modulo 2
    twin,       \* a second Lexer with its own caller: its struct, token, calls
    cachedSymbols,  \* the package's symbol table (lexer.go:713)
    symbolsOnce,    \* the sync.Once that guards it (lexer.go:714)
    goroutines,     \* where each goroutine is, and what Symbols() returned to it
    lex,            \* the parser's *lexer.PeekingLexer: the tokens and the cursor
    parsed,         \* what the last parse function produced, and its error
    fs,               \* the files on disk: path -> what the file holds
    rootMibPath,      \* LoadMibTree's first argument
    mibDirs,          \* LoadMibTree's second argument
    effectiveMibDirs, \* the directories searched (parser.go:111)
    parsedModules,    \* the map being filled (parser.go:102)
    stack,            \* the calls of loadMibRecursive in progress
    ret,              \* what the call that has just returned, returned
    loadPc,           \* "off", "idle", "running" or "done"
    result,           \* what LoadMibTree returned
    lastParse,        \* what the last call of ParseFile returned
    failed,           \* a file was missing or failed to parse during the load
    findRes,          \* what findMibFile returned
    opened            \* the paths handed to os.Open so far, in order

goVars == <<cachedSymbols, symbolsOnce, goroutines>>
parseVars == <<lex, parsed>>
lexVars == <<l, tok, prev, calls, lexStart, parity, twin, goVars, parseVars>>
loaderVars == <<fs, rootMibPath, mibDirs, effectiveMibDirs, parsedModules, stack, ret,
                loadPc, result, lastParse, failed, findRes, opened>>
vars == <<lexVars, loaderVars>>

----------------------------------------------------------------------------
(* Bytes and runes                                                         *)

Upper == {"A","B","C","D","E","F","G","H","I","J","K","L","M",
          "N","O","P","Q","R","S","T","U","V","W","X","Y","Z"}
Lower == {"a","b","c","d","e","f","g","h","i","j","k","l","m",
          "n","o","p","q","r","s","t","u","v","w","x","y","z"}
Digits == {"0","1","2","3","4","5","6","7","8","9"}

\* Bytes >= 0x80 of the model: leads of two-byte and three-byte encodings and
\* continuation bytes.
Lead2 == {"xC2", "xC3", "xD9"}
Lead3 == {"xE2"}
Cont  == {"xA0", "xA9"}

eof       == <<"eof">>
RuneError == <<"xEF", "xBF", "xBD">>
NL        == <<"\n">>

\* utf8.DecodeRuneInString(s[p:]): the rune and its width in bytes.
DecodeRuneInString(s, p) ==
    IF p >= Len(s) THEN [r |-> RuneError, w |-> 0]
    ELSE IF s[p + 1] \in Lead2 /\ p + 1 < Len(s) /\ s[p + 2] \in Cont
      THEN [r |-> <<s[p + 1], s[p + 2]>>, w |-> 2]
    ELSE IF s[p + 1] \in Lead3 /\ p + 2 < Len(s) /\ s[p + 2] \in Cont /\ s[p + 3] \in Cont
      THEN [r |-> <<s[p + 1], s[p + 2], s[p + 3]>>, w |-> 3]
    ELSE IF s[p + 1] \in Lead2 \cup Lead3 \cup Cont
      THEN [r |-> RuneError, w |-> 1]
    ELSE [r |-> <<s[p + 1]>>, w |-> 1]

\* unicode.IsSpace: the ASCII white space and U+00A0 (C2 A0).
IsSpace(r) == r \in {<<" ">>, <<"\t">>, <<"\n">>, <<"\r">>, <<"\f">>, <<"xC2", "xA0">>}

\* unicode.IsLetter: ASCII letters, U+00E0 (C3 A0) and U+00E9 (C3 A9).
IsLetter(r) ==
    \/ Len(r) = 1 /\ r[1] \in Upper \cup Lower
    \/ Len(r) = 2 /\ r[1] = "xC3"

\* unicode.IsDigit: ASCII digits, U+0660 (D9 A0) and U+0669 (D9 A9).
IsDigit(r) ==
    \/ Len(r) = 1 /\ r[1] \in Digits
    \/ Len(r) = 2 /\ r[1] = "xD9"

isIdentifierStart(r) == IsLetter(r)

isIdentifierChar(r) == IsLetter(r) \/ IsDigit(r) \/ r = <<"-">>

isHexDigitDecimal(b) == b \in Digits

isHexDigit(b) == b \in Digits \cup {"a","b","c","d","e","f","A","B","C","D","E","F"}

\* strings.ContainsRune("0123456789", r)
IsDecimal(r) == Len(r) = 1 /\ r[1] \in Digits

----------------------------------------------------------------------------------------------------------------------------------------
(* The lexer's primitives.  A record l0 is the Lexer struct plus the flag   *)
(* panic, set when a slice expression is out of range; every primitive is   *)
(* the identity on a lexer that has panicked.  An operator named X_y is the *)
(* part y of the source's function X.                                       *)

NewLexer(input) ==
    [input |-> input, start |-> 0, pos |-> 0, width |-> 0, line |-> 1,
     column |-> 1, startLine |-> 0, startColumn |-> 0, panic |-> FALSE]

next_decoded(l0, d) ==
    [l |-> [l0 EXCEPT !.width = d.w,
                      !.pos = @ + d.w,
                      !.line = IF d.r = NL THEN @ + 1 ELSE @,
                      !.column = IF d.r = NL THEN 1 ELSE @ + d.w],
     r |-> d.r]

next(l0) ==
    IF l0.panic THEN [l |-> l0, r |-> eof]
    ELSE IF l0.pos >= Len(l0.input) THEN [l |-> [l0 EXCEPT !.width = 0], r |-> eof]
    ELSE IF l0.pos < 0 THEN [l |-> [l0 EXCEPT !.panic = TRUE], r |-> eof]
    ELSE next_decoded(l0, DecodeRuneInString(l0.input, l0.pos))

backup_to(l0, p) ==
    IF p < 0 \/ p > Len(l0.input)
      THEN [l0 EXCEPT !.pos = p, !.panic = TRUE]
    ELSE IF DecodeRuneInString(l0.input, p).r = NL
      THEN [l0 EXCEPT !.pos = p, !.line = @ - 1, !.column = 0]
    ELSE [l0 EXCEPT !.pos = p, !.column = @ - l0.width]

backup(l0) == IF l0.panic THEN l0 ELSE backup_to(l0, l0.pos - l0.width)

peek_back(n) == [l |-> backup(n.l), r |-> n.r]

peek(l0) == peek_back(next(l0))

NoTok == [Type |-> "none", Value |-> <<>>, Offset |-> 0, Line |-> 0, Column |-> 0]

\* emitToken, were it to rewind the lexer after emitting the end-of-input token.
emitTokenReset(l0, t) ==
    IF l0.panic THEN [l |-> l0, tok |-> NoTok]
    ELSE IF l0.start < 0 \/ l0.pos > Len(l0.input) \/ l0.start > l0.pos
      THEN [l |-> [l0 EXCEPT !.panic = TRUE], tok |-> NoTok]
    ELSE [l |-> [l0 EXCEPT !.start = IF t = "EOF" THEN 0 ELSE l0.pos,
                           !.pos = IF t = "EOF" THEN 0 ELSE l0.pos,
                           !.line = IF t = "EOF" THEN 1 ELSE l0.line,
                           !.column = IF t = "EOF" THEN 1 ELSE l0.column,
                           !.startLine = IF t = "EOF" THEN 1 ELSE l0.line,
                           !.startColumn = IF t = "EOF" THEN 1 ELSE l0.column],
          tok |-> [Type |-> t, Value |-> SubSeq(l0.input, l0.start + 1, l0.pos),
                   Offset |-> l0.start, Line |-> l0.startLine,
                   Column |-> l0.startColumn]]

emitToken(l0, t) ==
    IF l0.panic THEN [l |-> l0, tok |-> NoTok]
    ELSE IF l0.start < 0 \/ l0.pos > Len(l0.input) \/ l0.start > l0.pos
      THEN [l |-> [l0 EXCEPT !.panic = TRUE], tok |-> NoTok]
    ELSE [l |-> [l0 EXCEPT !.start = l0.pos, !.startLine = l0.line,
                           !.startColumn = l0.column],
          tok |-> [Type |-> t, Value |-> SubSeq(l0.input, l0.start + 1, l0.pos),
                   Offset |-> l0.start, Line |-> l0.startLine,
                   Column |-> l0.startColumn]]

ignore(l0) ==
    [l0 EXCEPT !.start = l0.pos, !.startLine = l0.line, !.startColumn = l0.column]

RECURSIVE acceptRun_loop(_)
acceptRun_step(n) == IF IsDecimal(n.r) THEN acceptRun_loop(n.l) ELSE n.l
acceptRun_loop(l0) == acceptRun_step(next(l0))

acceptRun(l0) == backup(acceptRun_loop(l0))

RECURSIVE skipWhitespace(_)
skipWhitespace_step(p) == IF IsSpace(p.r) THEN skipWhitespace(next(p.l).l) ELSE p.l
skipWhitespace(l0) == skipWhitespace_step(peek(l0))

RECURSIVE skipCommentRest(_)
skipCommentRest_step(n) ==
    IF n.r = NL \/ n.r = eof THEN n.l ELSE skipCommentRest(n.l)
\* skipCommentRest, were it to leave the rest of the line where it is.
skipCommentRestNone(l0) == l0

skipCommentRest(l0) == skipCommentRest_step(next(l0))

----------------------------------------------------------------------------
(* Lookahead helpers                                                       *)

kwOBJECT      == <<"O","B","J","E","C","T">>
kwIDENTIFIER  == <<"I","D","E","N","T","I","F","I","E","R">>
kwOCTET       == <<"O","C","T","E","T">>
kwSTRING      == <<"S","T","R","I","N","G">>
kwAPPLICATION == <<"A","P","P","L","I","C","A","T","I","O","N">>

\* l.input[a:b] for 0 <= a <= b <= len
Slice(s, a, b) == SubSeq(s, a + 1, b)

peekAhead(l0, prefix) ==
    IF l0.pos + Len(prefix) > Len(l0.input) THEN FALSE
    ELSE Slice(l0.input, l0.pos, l0.pos + Len(prefix)) = prefix

\* The inner loop of peekAheadN: skip the rest of a comment.
RECURSIVE peekAheadN_comment(_, _)
peekAheadN_commentStep(s, cur, d) ==
    IF d.r = NL THEN cur + d.w
    ELSE IF cur + d.w >= Len(s) THEN cur + d.w
    ELSE peekAheadN_comment(s, cur + d.w)
peekAheadN_comment(s, cur) ==
    IF cur >= Len(s) THEN cur
    ELSE peekAheadN_commentStep(s, cur, DecodeRuneInString(s, cur))

\* The outer loop of peekAheadN: skip white space and comments.
RECURSIVE peekAheadN_skip(_, _)
peekAheadN_skipStep(s, cur, d) ==
    IF IsSpace(d.r) THEN peekAheadN_skip(s, cur + d.w)
    ELSE IF d.r = <<"-">> /\ cur + d.w < Len(s) /\ s[cur + d.w + 1] = "-"
      THEN peekAheadN_skip(s, peekAheadN_comment(s, cur + d.w + d.w))
    ELSE cur
peekAheadN_skip(s, cur) ==
    IF cur >= Len(s) THEN cur
    ELSE peekAheadN_skipStep(s, cur, DecodeRuneInString(s, cur))

peekAheadN_match(s, cur, expected) ==
    IF cur + Len(expected) > Len(s) THEN [match |-> FALSE, endPos |-> -1]
    ELSE IF Slice(s, cur, cur + Len(expected)) = expected
      THEN [match |-> TRUE, endPos |-> cur + Len(expected)]
    ELSE [match |-> FALSE, endPos |-> -1]

peekAheadN(l0, offset, expected) ==
    peekAheadN_match(l0.input, peekAheadN_skip(l0.input, l0.pos + offset), expected)

----------------------------------------------------------------------------
(* Identifiers, multi-word keywords and numbers                            *)

\* The loop of lexIdentifier after the first character.
RECURSIVE lexIdentifier_loop(_)
lexIdentifier_step(p) ==
    IF /\ p.r = <<"-">>
       /\ p.l.pos + p.l.width < Len(p.l.input)
       /\ DecodeRuneInString(p.l.input, p.l.pos + p.l.width).r = <<"-">>
      THEN p.l
    ELSE IF ~isIdentifierChar(p.r) THEN p.l
    ELSE lexIdentifier_loop(next(p.l).l)
lexIdentifier_loop(l0) == lexIdentifier_step(peek(l0))

lexIdentifier_regular(l0) == emitToken(lexIdentifier_loop(next(l0).l), "Ident")

\* The multi-word branch: jump to endPos, the column advanced by the bytes.
lexIdentifier_multi(l0, endPos, t) ==
    emitToken([l0 EXCEPT !.pos = endPos, !.column = @ + (endPos - l0.pos)], t)

lexIdentifier_octet(l0, m) ==
    IF m.match THEN lexIdentifier_multi(l0, m.endPos, "OctetString")
    ELSE lexIdentifier_regular(l0)

lexIdentifier_tryOctet(l0) ==
    IF peekAhead(l0, kwOCTET)
      THEN lexIdentifier_octet(l0, peekAheadN(l0, Len(kwOCTET), kwSTRING))
    ELSE lexIdentifier_regular(l0)

lexIdentifier_object(l0, m) ==
    IF m.match THEN lexIdentifier_multi(l0, m.endPos, "ObjectIdentifier")
    ELSE lexIdentifier_tryOctet(l0)

lexIdentifier(l0) ==
    IF peekAhead(l0, kwOBJECT)
      THEN lexIdentifier_object(l0, peekAheadN(l0, Len(kwOBJECT), kwIDENTIFIER))
    ELSE lexIdentifier_tryOctet(l0)

lexNumber(l0) == emitToken(acceptRun(l0), "Int")

----------------------------------------------------------------------------
(* Double-quoted text                                                      *)

\* The scanning loop of lexText: b is the strings.Builder, written with the
\* bytes of each rune.
RECURSIVE lexText_loop(_, _, _, _)

\* A rune that is neither an escape, a quote nor the end of the input.
lexText_rune(l1, r, b, atLineStart, lastCharWasSpace) ==
    IF r = NL THEN lexText_loop(l1, b \o NL, TRUE, FALSE)
    ELSE IF r \in {<<" ">>, <<"\t">>}
      THEN IF atLineStart THEN lexText_loop(l1, b, atLineStart, lastCharWasSpace)
           ELSE IF ~lastCharWasSpace THEN lexText_loop(l1, b \o <<" ">>, atLineStart, TRUE)
           ELSE lexText_loop(l1, b, atLineStart, lastCharWasSpace)
    ELSE lexText_loop(l1, b \o r, FALSE, FALSE)

\* After a carriage return: p is the peek at what follows it.
lexText_cr(p, b, atLineStart, lastCharWasSpace) ==
    IF p.r = NL THEN lexText_loop(p.l, b, atLineStart, lastCharWasSpace)
    ELSE lexText_rune(p.l, <<" ">>, b, atLineStart, lastCharWasSpace)

\* After a backslash: e is the rune consumed after it.
lexText_escape(e, b) ==
    IF e.r = eof THEN [l |-> e.l, b |-> b, isTerminated |-> FALSE]
    ELSE lexText_loop(e.l, b \o e.r, FALSE, FALSE)

lexText_step(n, b, atLineStart, lastCharWasSpace) ==
    IF n.r = <<"\\">> THEN lexText_escape(next(n.l), b)
    ELSE IF n.r = <<"\"">> THEN [l |-> n.l, b |-> b, isTerminated |-> TRUE]
    ELSE IF n.r = eof THEN [l |-> n.l, b |-> b, isTerminated |-> FALSE]
    ELSE IF n.r = <<"\r">> THEN lexText_cr(peek(n.l), b, atLineStart, lastCharWasSpace)
    ELSE lexText_rune(n.l, n.r, b, atLineStart, lastCharWasSpace)

lexText_loop(l0, b, atLineStart, lastCharWasSpace) ==
    lexText_step(next(l0), b, atLineStart, lastCharWasSpace)

\* The ExtUTCTime test on the content of the original lexeme.
lexText_isUTCTimeContent(content) ==
    /\ Len(content) \in {11, 13}
    /\ content[Len(content)] \in {"Z", "z"}
    /\ \A i \in 1..(Len(content) - 1) : content[i] \in Digits

lexText_isUTCTime(orig) ==
    Len(orig) > 2 /\ lexText_isUTCTimeContent(SubSeq(orig, 2, Len(orig) - 1))

\* The trimming loop on the builder's result.
RECURSIVE lexText_trim(_)
lexText_trim(b) ==
    IF Len(b) > 0 /\ b[Len(b)] \in {" ", "\n", "\t"}
      THEN lexText_trim(SubSeq(b, 1, Len(b) - 1))
    ELSE b

\* The end of lexText for a Text token: emitToken runs on the builder's result
\* put in place of the input (e is what it returns), then the lexer's state is
\* restored.
lexText_restore(l1, startPosForCheck, e) ==
    [l |-> [e.l EXCEPT !.input = l1.input, !.start = startPosForCheck,
                       !.pos = (l1.pos - 1) + 1, !.startLine = e.l.line,
                       !.startColumn = e.l.column],
     tok |-> e.tok]

lexText_emitText(l1, startPosForCheck, finalContent) ==
    lexText_restore(l1, startPosForCheck,
        emitToken([l1 EXCEPT !.input = finalContent, !.start = 0,
                             !.pos = Len(finalContent)], "Text"))

lexText_end(startPosForCheck, res) ==
    IF res.l.panic THEN emitToken(res.l, "ILLEGAL")
    ELSE IF ~res.isTerminated
      THEN emitToken([res.l EXCEPT !.start = startPosForCheck], "ILLEGAL")
    ELSE IF lexText_isUTCTime(Slice(res.l.input, startPosForCheck, res.l.pos))
      THEN emitToken([res.l EXCEPT !.start = startPosForCheck], "ExtUTCTime")
    ELSE lexText_emitText(res.l, startPosForCheck, lexText_trim(res.b))

lexText(l0) == lexText_end(l0.start, lexText_loop(next(l0).l, <<>>, TRUE, FALSE))

----------------------------------------------------------------------------
(* Single-quoted hex and binary strings                                    *)

RECURSIVE lexQuotedString_loop(_)
lexQuotedString_step(p) ==
    IF p.r = <<"'">> THEN [l |-> next(p.l).l, closed |-> TRUE]
    ELSE IF p.r = eof \/ p.r = NL THEN [l |-> p.l, closed |-> FALSE]
    ELSE lexQuotedString_loop(next(p.l).l)
lexQuotedString_loop(l0) == lexQuotedString_step(peek(l0))

\* After the closing quote: s is the peek at the suffix.
lexQuotedString_suffix(content, s) ==
    IF s.r \in {<<"H">>, <<"h">>}
      THEN emitToken(next(s.l).l,
             IF \A i \in 1..Len(content) : isHexDigit(content[i])
               THEN "HexString" ELSE "ILLEGAL")
    ELSE IF s.r \in {<<"B">>, <<"b">>}
      THEN emitToken(next(s.l).l,
             IF \A i \in 1..Len(content) : content[i] \in {"0", "1"}
               THEN "BinString" ELSE "ILLEGAL")
    ELSE IF s.r # eof /\ ~IsSpace(s.r)
      THEN emitToken(next(s.l).l, "ILLEGAL")
    ELSE emitToken(s.l, "ILLEGAL")

lexQuotedString_end(contentStart, q) ==
    IF ~q.closed THEN emitToken(q.l, "ILLEGAL")
    ELSE lexQuotedString_suffix(Slice(q.l.input, contentStart, q.l.pos - 1), peek(q.l))

lexQuotedString_body(a) == lexQuotedString_end(a.pos, lexQuotedString_loop(a))

lexQuotedString(l0) == lexQuotedString_body(next(l0).l)

----------------------------------------------------------------------------
(* ASN.1 tags                                                              *)

\* Expect ']': pe is the peek after the digits and the white space.
lexASN1Tag_close(pe) ==
    IF pe.r # <<"]">> THEN emitToken(pe.l, "ILLEGAL")
    ELSE emitToken(next(pe.l).l, "ASN1Tag")

\* Expect digits: pd is the peek where they should start.
lexASN1Tag_digits(digitStart, pd) ==
    IF ~IsDigit(pd.r)
      THEN emitToken([next([pd.l EXCEPT !.pos = pd.l.start]).l
                        EXCEPT !.pos = digitStart], "ILLEGAL")
    ELSE lexASN1Tag_close(peek(skipWhitespace(acceptRun(pd.l))))

lexASN1Tag_afterApplication(c) == lexASN1Tag_digits(c.pos, peek(c))

\* Expect APPLICATION: b is the lexer after the white space that follows '['.
lexASN1Tag_application(startPos, b) ==
    IF b.panic THEN emitToken(b, "ILLEGAL")
    ELSE IF ~peekAhead(b, kwAPPLICATION)
      THEN emitToken(next(backup([b EXCEPT !.pos = startPos])).l, "ILLEGAL")
    ELSE lexASN1Tag_afterApplication(
             skipWhitespace([b EXCEPT !.pos = @ + Len(kwAPPLICATION)]))

lexASN1Tag_afterBracket(a) == lexASN1Tag_application(a.pos, skipWhitespace(a))

lexASN1Tag(l0) == lexASN1Tag_afterBracket(next(l0).l)

----------------------------------------------------------------------------
(* Next                                                                    *)

Next_punctuation(b) ==
    CASE b = "|" -> "Pipe"   [] b = "{" -> "LBrace" [] b = "}" -> "RBrace"
      [] b = "(" -> "LPAREN" [] b = ")" -> "RPAREN" [] b = "," -> "Comma"
      [] b = ";" -> "Semicolon" [] b = "-" -> "Minus"

\* After "::": q is the peek at what follows.
Next_assign(q) ==
    IF q.r = <<"=">> THEN emitToken(next(q.l).l, "Assign")
    ELSE emitToken(q.l, "ILLEGAL")

\* After ':': p is the peek at what follows.
Next_colon(p) ==
    IF p.r = <<":">> THEN Next_assign(peek(next(p.l).l))
    ELSE emitToken(p.l, "ILLEGAL")

\* After '.': p is the peek at what follows.
Next_dot(p) ==
    IF p.r = <<".">> THEN emitToken(next(p.l).l, "Range")
    ELSE emitToken(p.l, "Dot")

\* The switch of Next: l1 is the lexer after the first rune r was consumed.
Next_switch(l1, r) ==
    IF r = <<":">> THEN Next_colon(peek(l1))
    ELSE IF r = <<".">> THEN Next_dot(peek(l1))
    ELSE IF Len(r) = 1 /\ r[1] \in {"|", "{", "}", "(", ")", ",", ";", "-"}
      THEN emitToken(l1, Next_punctuation(r[1]))
    ELSE IF r = <<"[">> THEN lexASN1Tag(backup(l1))
    ELSE IF r = <<"\"">> THEN lexText(backup(l1))
    ELSE IF r = <<"'">> THEN lexQuotedString(backup(l1))
    ELSE IF IsDigit(r) THEN lexNumber(backup(l1))
    ELSE IF isIdentifierStart(r) THEN lexIdentifier(backup(l1))
    ELSE emitToken(l1, "ILLEGAL")

Next_consume(n) == Next_switch(n.l, n.r)

\* The loop of Next: p is the peek at the cursor, the start position set.
RECURSIVE Next_loop(_)
Next_step(p) ==
    IF IsSpace(p.r) THEN Next_loop(ignore(skipWhitespace(p.l)))
    ELSE IF p.r = <<"-">> /\ p.l.pos + 1 < Len(p.l.input)
            /\ p.l.input[p.l.pos + 2] = "-"
      THEN Next_loop(ignore(skipCommentRest(next(next(p.l).l).l)))
    ELSE IF p.r = eof THEN emitToken(p.l, "EOF")
    ELSE Next_consume(next(p.l))
Next_loop(l0) ==
    Next_step(peek([l0 EXCEPT !.start = l0.pos, !.startLine = l0.line,
                              !.startColumn = l0.column]))

\* Next() (lexer.go:153-260): the token, or a panic that reaches the caller.
Next(l0) == Next_loop(l0)

----------------------------------------------------------------------------
(* Files, paths and errors                                                 *)
(*                                                                         *)
(* A path is <<directory, module name, extension>>: filepath.Join of the   *)
(* directory with the file name moduleName + extension.  Module names hold *)
(* no dot and no separator, so two different triples are two different     *)
(* files.  The directories "root", "u1" and "u2" are absolute; "rel" is a  *)
(* relative name of "u1"; "gone" is a relative name that cannot be         *)
(* resolved because the working directory cannot be read.                  *)

Names == {"A", "B", "C"}
AbsDirs == {"root", "u1", "u2"}

\* A nil error, and fmt.Errorf("<context>: %w", err).
NoErr == <<>>
Wrap(context, err) == <<context>> \o err

\* filepath.Abs on a directory (parser.go:196) and on a path (parser.go:104,
\* 167); filepath.IsAbs (parser.go:125); filepath.Dir (parser.go:110);
\* filepath.Join (parser.go:203).
AbsDir(dir) ==
    IF dir \in AbsDirs THEN [dir |-> dir, err |-> NoErr]
    ELSE IF dir = "rel" THEN [dir |-> "u1", err |-> NoErr]
    ELSE [dir |-> "", err |-> <<"getwd">>]
Abs(path) ==
    [path |-> <<AbsDir(path[1]).dir, path[2], path[3]>>, err |-> AbsDir(path[1]).err]
IsAbs(path) == path[1] \in AbsDirs
Dir(path) == path[1]
Join(dir, fname) == <<dir, fname[1], fname[2]>>

\* What a file holds: a module that parses ("ok"), text the grammar rejects
\* after the part given by name and imports ("syntaxerr"), text the parser's
\* lexer rejects ("lexerr"), or a file that may not be opened ("unreadable").
ImportLists == { <<>>, <<"A">>, <<"B">>, <<"C">>, <<"B", "C">> }
FileContents ==
    [kind : {"ok"}, name : Names, imports : ImportLists]
        \cup [kind : {"syntaxerr", "lexerr", "unreadable"}, name : {"B"}, imports : {<<>>}]

\* os.Stat(path) succeeded (parser.go:204); os.Open(path) succeeded
\* (parser.go:85-88).
Stat(fs0, path) == path \in DOMAIN fs0
Open(fs0, path) == path \in DOMAIN fs0 /\ fs0[path].kind # "unreadable"

\* The error of os.Open when it fails: os.ErrNotExist for a path with no
\* file, os.ErrPermission for a file that may not be read.
ErrNotExist == "file does not exist"
OpenErr(fs0, path) ==
    IF path \in DOMAIN fs0 THEN <<"permission denied">> ELSE <<ErrNotExist>>

\* errors.Is(err, target): target is err or one of the errors it wraps.
Is(err, target) == \E i \in 1..Len(err) : err[i] = target

\* A *Module: nil, or the AST with its Name and Body.Imports.
NilModule == [nil |-> TRUE, Name |-> "", Imports |-> <<>>]
Module(name, imports) == [nil |-> FALSE, Name |-> name, Imports |-> imports]

\* Parse (parser.go:78-81) hands back what smiParser.Parse returns: the
\* module and no error; no module when the lexer fails; the module built so
\* far, with the error, when the grammar does not match.
Parse(file) ==
    IF file.kind = "ok" THEN [module |-> Module(file.name, file.imports), err |-> NoErr]
    ELSE IF file.kind = "lexerr" THEN [module |-> NilModule, err |-> <<"lexer">>]
    ELSE [module |-> Module(file.name, file.imports), err |-> <<"syntax">>]

\* ParseFile (parser.go:84-97).  parsed tells whether Parse was called.
ParseFile_parsed(path, r) ==
    IF r.err # NoErr
      THEN [path |-> path, module |-> r.module, err |-> Wrap("Parse file", r.err),
            parsed |-> TRUE]
    ELSE [path |-> path, module |-> r.module, err |-> NoErr, parsed |-> TRUE]
\* The same with the error of os.Open formatted into the text, not wrapped.
ParseFileFlat(fs0, path) ==
    IF ~Open(fs0, path)
      THEN [path |-> path, module |-> NilModule, err |-> <<"Open file">>, parsed |-> FALSE]
    ELSE ParseFile_parsed(path, Parse(fs0[path]))
ParseFile(fs0, path) ==
    IF ~Open(fs0, path)
      THEN [path |-> path, module |-> NilModule, err |-> Wrap("Open file", OpenErr(fs0, path)),
            parsed |-> FALSE]
    ELSE ParseFile_parsed(path, Parse(fs0[path]))

NoParse == [path |-> <<>>, module |-> NilModule, err |-> NoErr, parsed |-> FALSE]

\* A map[string]*Module: nil, or made and holding m.
NilMap == [nil |-> TRUE, m |-> <<>>]
make == [nil |-> FALSE, m |-> <<>>]
insert(pm, k, v) ==
    [pm EXCEPT !.m = [x \in DOMAIN pm.m \cup {k} |-> IF x = k THEN v ELSE pm.m[x]]]

\* `_, exists := parsedModules[name]` (parser.go:139 and 151), and what it
\* would be were the lookup never to find the key.
existsNever(pm, name) == FALSE
exists(pm, name) == name \in DOMAIN pm.m

----------------------------------------------------------------------------
(* findMibFile                                                             *)

\* possibleFilenames (parser.go:187-192), as <<module name, extension>>.
possibleFilenames(moduleName) ==
    << <<moduleName, ".mib">>, <<moduleName, ".txt">>, <<moduleName, "">> >>

NotFound == [path |-> <<>>, found |-> FALSE]

\* The inner loop (parser.go:202-208) from the k-th file name on.
RECURSIVE findMibFile_fnames(_, _, _, _)
findMibFile_fnames(fs0, absDir, fnames, k) ==
    IF k > Len(fnames) THEN NotFound
    ELSE IF Stat(fs0, Join(absDir, fnames[k]))
      THEN [path |-> Join(absDir, fnames[k]), found |-> TRUE]
    ELSE findMibFile_fnames(fs0, absDir, fnames, k + 1)

\* The outer loop (parser.go:194-209) from the d-th directory on.
RECURSIVE findMibFile_dirs(_, _, _, _)
findMibFile_inDir(fs0, moduleName, dirs, d, r) ==
    IF r.found THEN r ELSE findMibFile_dirs(fs0, moduleName, dirs, d + 1)
findMibFile_dirs(fs0, moduleName, dirs, d) ==
    IF d > Len(dirs) THEN NotFound
    ELSE IF AbsDir(dirs[d]).err # NoErr
      THEN findMibFile_dirs(fs0, moduleName, dirs, d + 1)
    ELSE findMibFile_inDir(fs0, moduleName, dirs, d,
           findMibFile_fnames(fs0, AbsDir(dirs[d]).dir, possibleFilenames(moduleName), 1))

\* findMibFile, were it to try each file name in every directory before the
\* next file name.
RECURSIVE findMibFileByName_from(_, _, _, _, _)
findMibFileByName_from(fs0, moduleName, dirs, k, d) ==
    IF k > 3 THEN NotFound
    ELSE IF d > Len(dirs) THEN findMibFileByName_from(fs0, moduleName, dirs, k + 1, 1)
    ELSE IF AbsDir(dirs[d]).err = NoErr
            /\ Stat(fs0, Join(AbsDir(dirs[d]).dir, possibleFilenames(moduleName)[k]))
      THEN [path |-> Join(AbsDir(dirs[d]).dir, possibleFilenames(moduleName)[k]),
            found |-> TRUE]
    ELSE findMibFileByName_from(fs0, moduleName, dirs, k, d + 1)
findMibFileByName(fs0, moduleName, dirs) ==
    findMibFileByName_from(fs0, moduleName, dirs, 1, 1)

\* findMibFile (parser.go:185-215).
findMibFile(fs0, moduleName, dirs) == findMibFile_dirs(fs0, moduleName, dirs, 1)

----------------------------------------------------------------------------
(* loadMibRecursive, one call frame at a time                              *)
(*                                                                         *)
(* stack holds the calls of loadMibRecursive in progress, the innermost    *)
(* last.  A frame is at "enter" before the function's body has run and at  *)
(* "loop" inside the loop over the imports, about to handle imports[i].    *)
(* ret holds what the call that has just returned, returned.               *)

Frame(mibPath) ==
    [mibPath |-> mibPath, pc |-> "enter", moduleName |-> "", imports |-> <<>>, i |-> 1]
InLoop(frame, module) ==
    [frame EXCEPT !.pc = "loop", !.moduleName = module.Name,
                  !.imports = module.Imports, !.i = 1]

NoRet == [set |-> FALSE, err |-> NoErr]
Ret(err) == [set |-> TRUE, err |-> err]

Top(st) == st[Len(st)]
Front(st) == SubSeq(st, 1, Len(st) - 1)
Advance(st) == [st EXCEPT ![Len(st)].i = @ + 1]

\* What a step leaves behind: the stack, the value returned if the call
\* returned, the map, and whether a file was missing or failed to parse.
Out(st, r, pm, f) == [stack |-> st, ret |-> r, parsedModules |-> pm, failed |-> f]

\* The same with the file's name as the key of the map.
loadMibRecursive_enterByFile(st, pm, pf) ==
    IF ~IsAbs(Top(st).mibPath)
      THEN Out(Front(st), Ret(<<"internal error">>), pm, FALSE)
    ELSE IF pf.err # NoErr
      THEN Out(Front(st), Ret(Wrap("failed to parse MIB", pf.err)), pm, TRUE)
    ELSE IF exists(pm, Top(st).mibPath[2])
      THEN Out(Front(st), Ret(NoErr), pm, FALSE)
    ELSE IF pf.module.Imports = <<>>
      THEN Out(Front(st), Ret(NoErr), insert(pm, Top(st).mibPath[2], pf.module), FALSE)
    ELSE Out([st EXCEPT ![Len(st)] = InLoop(@, pf.module)], NoRet,
             insert(pm, Top(st).mibPath[2], pf.module), FALSE)

\* parser.go:124-147, pf being what ParseFile returned.
loadMibRecursive_enter(st, pm, pf) ==
    IF ~IsAbs(Top(st).mibPath)
      THEN Out(Front(st), Ret(<<"internal error">>), pm, FALSE)
    ELSE IF pf.err # NoErr
      THEN Out(Front(st), Ret(Wrap("failed to parse MIB", pf.err)), pm, TRUE)
    ELSE IF exists(pm, pf.module.Name)
      THEN Out(Front(st), Ret(NoErr), pm, FALSE)
    ELSE IF pf.module.Imports = <<>>
      THEN Out(Front(st), Ret(NoErr), insert(pm, pf.module.Name, pf.module), FALSE)
    ELSE Out([st EXCEPT ![Len(st)] = InLoop(@, pf.module)], NoRet,
             insert(pm, pf.module.Name, pf.module), FALSE)

\* parser.go:155-172, f being what findMibFile returned.
loadMibRecursive_found(st, pm, f) ==
    IF ~f.found
      THEN Out(Front(st), Ret(<<"could not find MIB file">>), pm, TRUE)
    ELSE IF Abs(f.path).err # NoErr
      THEN Out(Front(st), Ret(Wrap("failed to get absolute path", Abs(f.path).err)),
               pm, TRUE)
    ELSE Out(Append(st, Frame(Abs(f.path).path)), NoRet, pm, FALSE)

\* parser.go:149-172 and 179: one turn of the loop, up to the recursive call.
loadMibRecursive_import(st, pm, fs0, dirs) ==
    IF Top(st).i > Len(Top(st).imports)
      THEN Out(Front(st), Ret(NoErr), pm, FALSE)
    ELSE IF exists(pm, Top(st).imports[Top(st).i])
      THEN Out(Advance(st), NoRet, pm, FALSE)
    ELSE loadMibRecursive_found(st, pm, findMibFile(fs0, Top(st).imports[Top(st).i], dirs))

\* parser.go:172-177: the recursive call has returned r.
loadMibRecursive_afterCall(st, pm, r) ==
    IF r.err # NoErr
      THEN Out(Front(st), Ret(Wrap("failed to load dependency", r.err)), pm, FALSE)
    ELSE Out(Advance(st), NoRet, pm, FALSE)

\* parser.go:111.
EffectiveMibDirs(rootMibDir, dirs) == <<rootMibDir>> \o dirs

\* parser.go:113-117, and the same were the map handed back with the error.
NoResult == [map |-> NilMap, err |-> NoErr]
LoadMibTree_resultPartial(err, pm) == [map |-> pm, err |-> err]
LoadMibTree_result(err, pm) ==
    IF err # NoErr THEN [map |-> NilMap, err |-> err]
    ELSE [map |-> pm, err |-> NoErr]

----------------------------------------------------------------------------
(* The loader as a state machine: one call of LoadMibTree on one set of    *)
(* files.                                                                  *)

MaxDepth == 4

RootFile == <<"root", "A", ".mib">>
BFile == <<"u1", "B", ".txt">>
CFile == <<"root", "C", "">>
GoneFile == <<"gone", "A", ".mib">>
LoadDirs == { <<>>, <<"u1">>, <<"gone", "rel">> }

\* The file at path, or no file there.
Opt(path, contents) == {{}} \cup { {[path |-> path, file |-> f]} : f \in contents }
MkFs(entries) ==
    [p \in { e.path : e \in entries } |-> (CHOOSE e \in entries : e.path = p).file]

NoFind == [called |-> FALSE, path |-> <<>>, found |-> FALSE]

\* No parse has been started.
NoPeeking == [tokens |-> <<>>, cursor |-> 0, err |-> FALSE]

NoParsed == [op |-> "none", err |-> FALSE, value |-> <<>>, consumed |-> 0]

ParseIdle ==
    /\ lex = NoPeeking
    /\ parsed = NoParsed

\* No goroutine has been started: the package's variables are as declared.
NoOnce == [done |-> FALSE, m |-> 0]

GoIdle ==
    /\ cachedSymbols = NilMap
    /\ symbolsOnce = NoOnce
    /\ goroutines = <<>>

\* No second Lexer has been made.
NoTwin == [l |-> NewLexer(<<>>), tok |-> NoTok, calls |-> "none"]

LexIdle ==
    /\ l = NewLexer(<<>>)
    /\ tok = NoTok
    /\ prev = NoTok
    /\ calls = "none"
    /\ lexStart = 0
    /\ parity = 0
    /\ twin = NoTwin
    /\ GoIdle
    /\ ParseIdle

LoaderIdle ==
    /\ fs = <<>>
    /\ rootMibPath = RootFile
    /\ mibDirs = <<>>
    /\ effectiveMibDirs = <<>>
    /\ parsedModules = NilMap
    /\ stack = <<>>
    /\ ret = NoRet
    /\ loadPc = "off"
    /\ result = NoResult
    /\ lastParse = NoParse
    /\ failed = FALSE
    /\ findRes = NoFind
    /\ opened = <<>>

\* LoadMibTree is about to be called: the root file, a file for B and a
\* file for C, each there or not and holding one of contents, and one of
\* dirs as the caller's directories; or a root path that cannot be resolved.
InitLoadOn(contents, dirs) ==
    /\ LexIdle
    /\ \/ /\ \E r \in Opt(RootFile, contents), b \in Opt(BFile, contents),
                c \in Opt(CFile, contents) :
               fs = MkFs(r \cup b \cup c)
          /\ mibDirs \in dirs
          /\ rootMibPath = RootFile
       \/ /\ fs = <<>>
          /\ mibDirs = <<>>
          /\ rootMibPath = GoneFile
    /\ effectiveMibDirs = <<>>
    /\ parsedModules = NilMap
    /\ stack = <<>>
    /\ ret = NoRet
    /\ loadPc = "idle"
    /\ result = NoResult
    /\ lastParse = NoParse
    /\ failed = FALSE
    /\ findRes = NoFind
    /\ opened = <<>>

InitLoad == InitLoadOn(FileContents, LoadDirs)

Step(o) ==
    /\ stack' = o.stack
    /\ ret' = o.ret
    /\ parsedModules' = o.parsedModules
    /\ failed' = (failed \/ o.failed)

\* LoadMibTree up to the call of loadMibRecursive (parser.go:101-113).
LoadMibTreeCall ==
    /\ loadPc = "idle"
    /\ parsedModules' = make
    /\ IF Abs(rootMibPath).err # NoErr
         THEN /\ result' = [map |-> NilMap,
                            err |-> Wrap("failed to get absolute path",
                                         Abs(rootMibPath).err)]
              /\ loadPc' = "done"
              /\ UNCHANGED <<effectiveMibDirs, stack>>
         ELSE /\ effectiveMibDirs' =
                     EffectiveMibDirs(Dir(Abs(rootMibPath).path), mibDirs)
              /\ stack' = <<Frame(Abs(rootMibPath).path)>>
              /\ loadPc' = "running"
              /\ UNCHANGED result
    /\ UNCHANGED <<lexVars, fs, rootMibPath, mibDirs, ret, lastParse, failed, findRes,
                   opened>>

\* loadMibRecursive from its entry to the loop over the imports.
LoadEnter ==
    /\ loadPc = "running" /\ stack # <<>> /\ ~ret.set
    /\ Top(stack).pc = "enter"
    /\ Step(loadMibRecursive_enter(stack, parsedModules, ParseFile(fs, Top(stack).mibPath)))
    /\ lastParse' = IF IsAbs(Top(stack).mibPath)
                      THEN ParseFile(fs, Top(stack).mibPath) ELSE lastParse
    /\ opened' = IF IsAbs(Top(stack).mibPath)
                   THEN Append(opened, Top(stack).mibPath) ELSE opened
    /\ UNCHANGED <<lexVars, fs, rootMibPath, mibDirs, effectiveMibDirs, loadPc,
                   result, findRes>>

\* One turn of the loop over the imports, up to the recursive call, which
\* the stack has room for.
LoadImport ==
    /\ loadPc = "running" /\ stack # <<>> /\ ~ret.set
    /\ Top(stack).pc = "loop"
    /\ Len(loadMibRecursive_import(stack, parsedModules, fs, effectiveMibDirs).stack)
           <= MaxDepth
    /\ Step(loadMibRecursive_import(stack, parsedModules, fs, effectiveMibDirs))
    /\ UNCHANGED <<lexVars, fs, rootMibPath, mibDirs, effectiveMibDirs, loadPc,
                   result, lastParse, findRes, opened>>

\* The recursive call has returned into the loop.
LoadAfterCall ==
    /\ loadPc = "running" /\ stack # <<>> /\ ret.set
    /\ Step(loadMibRecursive_afterCall(stack, parsedModules, ret))
    /\ UNCHANGED <<lexVars, fs, rootMibPath, mibDirs, effectiveMibDirs, loadPc,
                   result, lastParse, findRes, opened>>

\* The outermost call has returned into LoadMibTree (parser.go:113-117).
LoadMibTreeReturn ==
    /\ loadPc = "running" /\ stack = <<>> /\ ret.set
    /\ result' = LoadMibTree_result(ret.err, parsedModules)
    /\ loadPc' = "done"
    /\ ret' = NoRet
    /\ UNCHANGED <<lexVars, fs, rootMibPath, mibDirs, effectiveMibDirs, parsedModules,
                   stack, lastParse, failed, findRes, opened>>

NextLoad ==
    \/ LoadMibTreeCall
    \/ LoadEnter
    \/ LoadImport
    \/ LoadAfterCall
    \/ LoadMibTreeReturn

SpecLoad == InitLoad /\ [][NextLoad]_vars
\* The load runs on until it returns, here on the files that parse.
InitLoadFair == InitLoadOn({ f \in FileContents : f.kind = "ok" }, { <<"rel">> })
SpecLoadFair == InitLoadFair /\ [][NextLoad]_vars /\ WF_vars(NextLoad)

----------------------------------------------------------------------------
(* findMibFile on its own: one module name, any set of candidate files.    *)

MaxDirs == 2

FindName == "A"
FindDirs == {"u1", "u2", "rel", "gone"}
FindPaths == { <<d, FindName, e>> : d \in AbsDirs, e \in {".mib", ".txt", ""} }
OtherFile == <<"root", "B", ".mib">>
OkFile(name) == [kind |-> "ok", name |-> name, imports |-> <<>>]

InitFind ==
    /\ LexIdle
    /\ \E S \in SUBSET FindPaths :
           fs = [p \in S \cup {OtherFile} |-> OkFile(p[2])]
    /\ mibDirs \in UNION { [1..n -> FindDirs] : n \in 0..MaxDirs }
    /\ rootMibPath = RootFile
    /\ effectiveMibDirs = <<>>
    /\ parsedModules = NilMap
    /\ stack = <<>>
    /\ ret = NoRet
    /\ loadPc = "off"
    /\ result = NoResult
    /\ lastParse = NoParse
    /\ failed = FALSE
    /\ findRes = NoFind
    /\ opened = <<>>

\* The search loadMibRecursive makes for FindName: the root file's directory
\* first, then the caller's.
FindCall ==
    /\ ~findRes.called
    /\ effectiveMibDirs' = EffectiveMibDirs(Dir(rootMibPath), mibDirs)
    /\ findRes' = [called |-> TRUE,
                   path |-> findMibFile(fs, FindName, EffectiveMibDirs(Dir(rootMibPath), mibDirs)).path,
                   found |-> findMibFile(fs, FindName, EffectiveMibDirs(Dir(rootMibPath), mibDirs)).found]
    /\ UNCHANGED <<lexVars, fs, rootMibPath, mibDirs, parsedModules, stack, ret, loadPc,
                   result, lastParse, failed, opened>>

SpecFind == InitFind /\ [][FindCall]_vars

----------------------------------------------------------------------------
(* The lexer as a state machine: one lexer over one input, and a caller    *)
(* that calls Next() again and again.                                      *)

MaxChunks == 3

\* The pieces the inputs are made of.
LexChunks ==
    { <<"a">>, <<"1">>, <<" ">>, <<"\n">>, <<"-">>, <<";">>, <<":">>, <<"[">>,
      <<"]">>, <<"\"">>, <<"'">>, <<"H">>, <<"\\">>, <<"\r">>,
      <<"xC3", "xA9">>, <<"xD9", "xA0">>, <<"xC2", "xA0">>,
      <<"xE2", "xA0", "xA9">>, <<"xA9">>, <<"xC3">>,
      kwOBJECT, kwIDENTIFIER, kwAPPLICATION }

RECURSIVE Concat(_)
Concat(ss) == IF ss = <<>> THEN <<>> ELSE Head(ss) \o Concat(Tail(ss))

InputsOf(chunks, n) ==
    { Concat(ss) : ss \in UNION { [1..k -> chunks] : k \in 0..n } }

\* Where the next lexeme starts when the cursor is at p: after the white space
\* and the comments.
RECURSIVE GapEnd(_, _)
GapEnd(s, p) ==
    IF p >= Len(s) THEN Len(s)
    ELSE IF IsSpace(DecodeRuneInString(s, p).r)
      THEN GapEnd(s, p + DecodeRuneInString(s, p).w)
    ELSE IF s[p + 1] = "-" /\ p + 1 < Len(s) /\ s[p + 2] = "-"
      THEN LET nl == { i \in (p + 1)..Len(s) : s[i] = "\n" } IN
           IF nl = {} THEN Len(s)
           ELSE GapEnd(s, CHOOSE i \in nl : \A j \in nl : i <= j)
    ELSE p

InitLex ==
    /\ \E input \in InputsOf(LexChunks, MaxChunks) : l = NewLexer(input)
    /\ tok = NoTok
    /\ prev = NoTok
    /\ calls = "none"
    /\ lexStart = 0
    /\ parity = 0
    /\ twin = NoTwin
    /\ GoIdle
    /\ ParseIdle
    /\ LoaderIdle

\* What the caller holds after a call that returned res.
Returned(res) ==
    /\ l' = res.l
    /\ tok' = res.tok
    /\ calls' = IF res.l.panic THEN "panic" ELSE "token"

NextCall ==
    /\ calls # "panic"
    /\ Returned(Next(l))
    /\ prev' = tok
    /\ lexStart' = GapEnd(l.input, l.pos)
    /\ parity' = 1 - parity
    /\ UNCHANGED <<twin, goVars, parseVars, loaderVars>>

SpecLex == InitLex /\ [][NextCall]_vars

\* A caller that keeps calling Next() for as long as it may, on the inputs
\* made of at most MaxFairChunks of these pieces.
MaxFairChunks == 2

FairChunks ==
    { <<"a">>, <<"1">>, <<" ">>, <<"\n">>, <<";">>, <<"[">>, <<"\"">>,
      <<"xC3", "xA9">>, <<"xD9", "xA0">>, <<"xA9">> }

InitLexFair ==
    /\ \E input \in InputsOf(FairChunks, MaxFairChunks) : l = NewLexer(input)
    /\ tok = NoTok
    /\ prev = NoTok
    /\ calls = "none"
    /\ lexStart = 0
    /\ parity = 0
    /\ twin = NoTwin
    /\ GoIdle
    /\ ParseIdle
    /\ LoaderIdle

\* The lexer states a caller can see on those inputs, and Next() tabulated
\* over them: NextOf[x] is Next(x), computed once per lexer state.
RECURSIVE LexReach(_, _)
LexReach(seen, frontier) ==
    IF frontier = {} THEN seen
    ELSE LexReach(seen \cup frontier,
                  { Next(x).l : x \in { y \in frontier : ~y.panic } }
                      \ (seen \cup frontier))

FairLexStates ==
    LexReach({}, { NewLexer(input) : input \in InputsOf(FairChunks, MaxFairChunks) })

NextOf == [x \in { y \in FairLexStates : ~y.panic } |-> Next(x)]

NextCallFair ==
    /\ calls # "panic"
    /\ Returned(NextOf[l])
    /\ prev' = tok
    /\ lexStart' = GapEnd(l.input, l.pos)
    /\ parity' = 1 - parity
    /\ UNCHANGED <<twin, goVars, parseVars, loaderVars>>

SpecLexFair == InitLexFair /\ [][NextCallFair]_vars /\ WF_vars(NextCallFair)

----------------------------------------------------------------------------
(* Claims about the lexer                                                  *)

\* The 1-based line of the byte at offset off: one plus the newlines before it.
LineOf(s, off) == 1 + Cardinality({ i \in 1..off : s[i] = "\n" })

\* The 1-based byte column of the byte at offset off.
ColumnOf(s, off) ==
    off + 1 - (IF \E i \in 1..off : s[i] = "\n"
                 THEN CHOOSE i \in 1..off :
                        s[i] = "\n" /\ \A j \in 1..off : s[j] = "\n" => j <= i
                 ELSE 0)

\* C1: for every input, every call of Next() returns a token: no call ends in
\* a panic.
C1_NeverPanics == calls # "panic"

\* C2: for every finite input, a caller that keeps calling Next() is returned
\* an EOF token after finitely many calls (a run that ends in a panic is the
\* subject of C1 and is not counted here).
C2_EventuallyEOF == <>(calls = "panic" \/ (calls = "token" /\ tok.Type = "EOF"))

\* C3: once Next() has returned EOF, every later call returns EOF again.
C3_EOFForever == prev.Type = "EOF" => (calls = "token" /\ tok.Type = "EOF")

C3_Witness ==
    /\ prev.Type = "EOF" /\ tok.Type = "EOF"
    /\ Len(l.input) > 0 /\ l.pos = Len(l.input)

\* C9: the line and the column of every token returned are the 1-based line
\* and byte column of the first byte of its lexeme in the input.
C9_TokenLineColumn ==
    calls = "token" =>
        /\ tok.Line = LineOf(l.input, lexStart)
        /\ tok.Column = ColumnOf(l.input, lexStart)

\* C10: the offset of every token returned is where its lexeme starts in the
\* input; offsets never decrease from one token to the next, and two tokens
\* in a row have the same offset only when the later one is EOF.
C10_TokenOffsets ==
    calls = "token" =>
        /\ tok.Offset = lexStart
        /\ prev.Type # "none" =>
              /\ prev.Offset <= tok.Offset
              /\ prev.Offset = tok.Offset => tok.Type = "EOF"

----------------------------------------------------------------------------
(* Claims about the loader                                                 *)

InSeq(x, seq) == \E i \in 1..Len(seq) : seq[i] = x
Success == loadPc = "done" /\ result.err = NoErr
Keys == DOMAIN result.map.m

\* C4: LoadMibTree terminates on every finite set of files, also when the
\* imports form a cycle, when a module imports itself and when modules share
\* an import.
C4_Terminates == <>(loadPc = "done")

C4_Witness ==
    /\ Success
    /\ {"A", "B"} \subseteq Keys
    /\ InSeq("B", result.map.m["A"].Imports)
    /\ InSeq("A", result.map.m["B"].Imports)

\* C5: when LoadMibTree succeeds, the map holds the root module, and every
\* module name in the IMPORTS of a module of the map is a key of the map.
C5_ImportsAreKeys ==
    Success =>
        /\ fs[rootMibPath].name \in Keys
        /\ \A k \in Keys : \A i \in 1..Len(result.map.m[k].Imports) :
               result.map.m[k].Imports[i] \in Keys

\* C6: if the root file or a file the load needs is missing or fails to
\* parse, LoadMibTree returns an error, and whenever it returns an error the
\* map it returns is nil.
C6_NilMapOnError ==
    loadPc = "done" =>
        /\ (failed \/ ~IsAbs(rootMibPath) \/ rootMibPath \notin DOMAIN fs)
               => result.err # NoErr
        /\ result.err # NoErr => result.map.nil

C6_Witness ==
    /\ loadPc = "done"
    /\ result.err # NoErr
    /\ result.map.nil
    /\ Cardinality(DOMAIN parsedModules.m) >= 2

\* The candidates in the order they are to be tried: <<d, k>> is the k-th file
\* name in the d-th directory, the root file's directory being the first.
SearchOrder == <<rootMibPath[1]>> \o mibDirs
ExtOrder == <<".mib", ".txt", "">>
Candidate(d, k) ==
    <<IF SearchOrder[d] = "rel" THEN "u1" ELSE SearchOrder[d], FindName, ExtOrder[k]>>
Ranks == { <<d, k>> : d \in 1..Len(SearchOrder), k \in 1..Len(ExtOrder) }
Existing == { r \in Ranks : Candidate(r[1], r[2]) \in DOMAIN fs }
Earlier(r, q) == r[1] < q[1] \/ (r[1] = q[1] /\ r[2] <= q[2])

\* C7: the file found for a module name is the first that exists when the
\* directories are taken in the order root file's directory, caller's
\* directories in argument order, and in each directory the names
\* <module>.mib, <module>.txt, <module>; none is found only if none exists.
C7_FirstCandidate ==
    findRes.called =>
        IF Existing = {} THEN ~findRes.found
        ELSE /\ findRes.found
             /\ \E r \in Existing :
                    /\ \A q \in Existing : Earlier(r, q)
                    /\ findRes.path = Candidate(r[1], r[2])

C7_Witness ==
    /\ findRes.called
    /\ mibDirs = <<"rel", "u2">>
    /\ findRes.path = <<"u1", FindName, ".txt">>
    /\ <<"u1", FindName, "">> \in DOMAIN fs
    /\ <<"u2", FindName, ".mib">> \in DOMAIN fs

\* C8: whenever ParseFile (and Parse under it) returns an error, the module
\* it returns is nil.
C8_NilModuleOnError == lastParse.err # NoErr => lastParse.module.nil

----------------------------------------------------------------------------
(* Claims about words and multi-word keywords                              *)

MaxWordChunks == 4

WordChunks ==
    { kwOBJECT, kwIDENTIFIER, kwOCTET, kwSTRING, <<" ">>, <<"\n">>, <<"-">>,
      <<"a">>, <<"{">> }

\* One lexer over an input made of at most n of the pieces chunks.
InitLexOn(chunks, n) ==
    /\ \E input \in InputsOf(chunks, n) : l = NewLexer(input)
    /\ tok = NoTok
    /\ prev = NoTok
    /\ calls = "none"
    /\ lexStart = 0
    /\ parity = 0
    /\ twin = NoTwin
    /\ GoIdle
    /\ ParseIdle
    /\ LoaderIdle

InitLexWords == InitLexOn(WordChunks, MaxWordChunks)
SpecLexWords == InitLexWords /\ [][NextCall]_vars

\* The word at offset p: the longest run of letters, digits and hyphens, a
\* hyphen that starts `--` excluded.
IsWordByte(s, i) ==
    \/ s[i] \in Upper \cup Lower \cup Digits
    \/ s[i] = "-" /\ ~(i < Len(s) /\ s[i + 1] = "-")
RECURSIVE WordEnd(_, _)
WordEnd(s, p) == IF p < Len(s) /\ IsWordByte(s, p + 1) THEN WordEnd(s, p + 1) ELSE p
Word(s, p) == SubSeq(s, p + 1, WordEnd(s, p))

\* The word after the word at p and the whitespace and comments behind it,
\* and where it ends.
NextWord(s, p) == Word(s, GapEnd(s, WordEnd(s, p)))
NextWordEnd(s, p) == WordEnd(s, GapEnd(s, WordEnd(s, p)))

IsKeywordPair(s, p, first, second) == Word(s, p) = first /\ NextWord(s, p) = second

\* C11: at a word, Next() returns ObjectIdentifier exactly when the word is
\* OBJECT and the next word, after whitespace and comments only, is
\* IDENTIFIER (the token spanning both), OctetString likewise for OCTET and
\* STRING, and in every other case an Ident whose value is the word.
C11_MultiWordKeywords ==
    (calls = "token" /\ lexStart < Len(l.input)
        /\ l.input[lexStart + 1] \in Upper \cup Lower) =>
      IF IsKeywordPair(l.input, lexStart, kwOBJECT, kwIDENTIFIER)
        THEN /\ tok.Type = "ObjectIdentifier"
             /\ tok.Value = SubSeq(l.input, lexStart + 1, NextWordEnd(l.input, lexStart))
      ELSE IF IsKeywordPair(l.input, lexStart, kwOCTET, kwSTRING)
        THEN /\ tok.Type = "OctetString"
             /\ tok.Value = SubSeq(l.input, lexStart + 1, NextWordEnd(l.input, lexStart))
      ELSE /\ tok.Type = "Ident"
           /\ tok.Value = Word(l.input, lexStart)

----------------------------------------------------------------------------
(* Claims about lexical errors                                             *)

\* C12: an ILLEGAL token's value is exactly the input text consumed for it,
\* which is not empty and starts where the lexeme starts, so that the next
\* call resumes at the first byte after that text.
C12_IllegalIsConsumedText ==
    (calls = "token" /\ tok.Type = "ILLEGAL") =>
        /\ tok.Value # <<>>
        /\ tok.Value = SubSeq(l.input, lexStart + 1, l.pos)

----------------------------------------------------------------------------
(* Claims about ASN.1 tags                                                 *)

MaxTagChunks == 5

TagChunks ==
    { <<"[">>, <<"]">>, kwAPPLICATION, <<" ">>, <<"1">>, <<"a">>, <<"xC3", "xA9">> }

\* A caller that stops calling once the lexer's line or column counter has
\* left -MaxColumn..MaxColumn, which no position in these inputs does.
MaxColumn == 60

NextCallCapped ==
    /\ l.column \in -MaxColumn..MaxColumn
    /\ l.line \in -MaxColumn..MaxColumn
    /\ NextCall

InitLexTags == InitLexOn(TagChunks, MaxTagChunks)
SpecLexTags == InitLexTags /\ [][NextCallCapped]_vars

\* Where the whitespace, and where the decimal digits, from offset p on end.
RECURSIVE SpacesEnd(_, _)
SpacesEnd(s, p) ==
    IF p < Len(s) /\ s[p + 1] \in {" ", "\t", "\n", "\r"} THEN SpacesEnd(s, p + 1) ELSE p
RECURSIVE DigitsEnd(_, _)
DigitsEnd(s, p) == IF p < Len(s) /\ s[p + 1] \in Digits THEN DigitsEnd(s, p + 1) ELSE p

\* s holds the text w at offset p.
HasAt(s, p, w) == p + Len(w) <= Len(s) /\ SubSeq(s, p + 1, p + Len(w)) = w

\* The offset after which the digits of a tag that opens at offset p start,
\* and the offset of the `]` that closes it; -1 if the text at p is no tag.
TagDigits(s, p) == SpacesEnd(s, SpacesEnd(s, p + 1) + Len(kwAPPLICATION))
TagClose(s, p) == SpacesEnd(s, DigitsEnd(s, TagDigits(s, p)))
TagEnd(s, p) ==
    IF /\ HasAt(s, p, <<"[">>)
       /\ HasAt(s, SpacesEnd(s, p + 1), kwAPPLICATION)
       /\ DigitsEnd(s, TagDigits(s, p)) > TagDigits(s, p)
       /\ HasAt(s, TagClose(s, p), <<"]">>)
      THEN TagClose(s, p) + 1
    ELSE -1

\* C13: at a `[`, Next() returns one ASN1Tag token, the whole tag, if and only
\* if optional whitespace, APPLICATION, optional whitespace, one or more
\* decimal digits, optional whitespace and `]` follow; otherwise it returns
\* one ILLEGAL token whose value is the prefix consumed.
C13_ASN1Tag ==
    (calls # "none" /\ HasAt(l.input, lexStart, <<"[">>)) =>
        /\ calls = "token"
        /\ IF TagEnd(l.input, lexStart) # -1
             THEN /\ tok.Type = "ASN1Tag"
                  /\ tok.Value = SubSeq(l.input, lexStart + 1, TagEnd(l.input, lexStart))
             ELSE /\ tok.Type = "ILLEGAL"
                  /\ tok.Value # <<>>
                  /\ tok.Value = SubSeq(l.input, lexStart + 1, l.pos)

----------------------------------------------------------------------------
(* Claims about white space between lexemes                                *)

\* Two callers, each with a Lexer of its own: the inputs are the same
\* lexemes, at most MaxLexemes of them, with a gap of white space between
\* each two, and the gaps of the two inputs are chosen independently.
MaxLexemes == 3

Lexemes ==
    { <<"a">>, <<"1">>, <<"[">>, <<"]">>, kwAPPLICATION, kwOBJECT, kwIDENTIFIER }

Gaps == { <<" ">>, <<" ", " ">>, <<"\n">> }

RECURSIVE Interleave(_, _)
Interleave(ls, gs) ==
    IF Len(ls) = 0 THEN <<>>
    ELSE IF Len(ls) = 1 THEN ls[1]
    ELSE ls[1] \o gs[1] \o Interleave(Tail(ls), Tail(gs))

InitLexPair ==
    /\ \E k \in 1..MaxLexemes : \E ls \in [1..k -> Lexemes] :
       \E gs \in [1..(k - 1) -> Gaps] : \E hs \in [1..(k - 1) -> Gaps] :
          /\ l = NewLexer(Interleave(ls, gs))
          /\ twin = [l |-> NewLexer(Interleave(ls, hs)), tok |-> NoTok, calls |-> "none"]
    /\ tok = NoTok
    /\ prev = NoTok
    /\ calls = "none"
    /\ lexStart = 0
    /\ parity = 0
    /\ GoIdle
    /\ ParseIdle
    /\ LoaderIdle

\* What the second caller holds after a call that returned res.
Called(res) ==
    [l |-> res.l, tok |-> res.tok, calls |-> IF res.l.panic THEN "panic" ELSE "token"]

\* Each caller calls Next() on its own Lexer.
NextCallBoth ==
    /\ calls # "panic"
    /\ twin.calls # "panic"
    /\ Returned(Next(l))
    /\ prev' = tok
    /\ lexStart' = GapEnd(l.input, l.pos)
    /\ parity' = 1 - parity
    /\ twin' = Called(Next(twin.l))
    /\ UNCHANGED <<goVars, parseVars, loaderVars>>

SpecLexPair == InitLexPair /\ [][NextCallBoth]_vars

\* C14: two inputs that are the same lexemes with different non-empty white
\* space between them give the same sequence of token kinds and values,
\* except for the values of ObjectIdentifier and OctetString tokens.
C14_WhitespaceInvariant ==
    calls # "none" =>
        /\ twin.calls = calls
        /\ tok.Type = twin.tok.Type
        /\ tok.Type \notin {"ObjectIdentifier", "OctetString"} => tok.Value = twin.tok.Value

----------------------------------------------------------------------------
(* Claims about double-quoted literals                                     *)

\* A caller on the inputs made of at most MaxTextChunks of these pieces.
MaxTextChunks == 5

TextChunks ==
    { <<"\"">>, <<"\\">>, <<"a">>, <<" ">>, <<"\t">>, <<"\n">>, <<"\r">> }

InitLexText == InitLexOn(TextChunks, MaxTextChunks)

SpecLexText == InitLexText /\ [][NextCall]_vars

\* The content of the literal the last call lexed: between its quotes.
Content == SubSeq(l.input, lexStart + 2, l.pos - 1)

\* `\\` turned into `\` and `\"` into `"`; the result is marked so that no
\* later step takes it for anything else.
RECURSIVE Unescape(_)
Unescape(s) ==
    IF s = <<>> THEN <<>>
    ELSE IF Len(s) >= 2 /\ s[1] = "\\" /\ s[2] \in {"\\", "\""}
      THEN <<"esc" \o s[2]>> \o Unescape(SubSeq(s, 3, Len(s)))
    ELSE <<s[1]>> \o Unescape(Tail(s))

\* CRLF turned into LF.
RECURSIVE CrLf(_)
CrLf(s) ==
    IF s = <<>> THEN <<>>
    ELSE IF Len(s) >= 2 /\ s[1] = "\r" /\ s[2] = "\n" THEN CrLf(Tail(s))
    ELSE <<s[1]>> \o CrLf(Tail(s))

\* Leading spaces and tabs of each line dropped, every other run of them
\* collapsed to one space.
RECURSIVE Collapse(_, _, _)
Collapse(s, atLineStart, afterSpace) ==
    IF s = <<>> THEN <<>>
    ELSE IF s[1] = "\n" THEN <<"\n">> \o Collapse(Tail(s), TRUE, FALSE)
    ELSE IF s[1] \in {" ", "\t"}
      THEN IF atLineStart \/ afterSpace THEN Collapse(Tail(s), atLineStart, afterSpace)
           ELSE <<" ">> \o Collapse(Tail(s), FALSE, TRUE)
    ELSE <<s[1]>> \o Collapse(Tail(s), FALSE, FALSE)

RECURSIVE TrimRight(_)
TrimRight(s) ==
    IF s # <<>> /\ s[Len(s)] \in {" ", "\t", "\n", "\r"}
      THEN TrimRight(SubSeq(s, 1, Len(s) - 1))
    ELSE s

Unmark(s) == [i \in 1..Len(s) |-> IF s[i] = "esc\\" THEN "\\" ELSE IF s[i] = "esc\"" THEN "\"" ELSE s[i]]

TextValue(content) == Unmark(TrimRight(Collapse(CrLf(Unescape(content)), TRUE, FALSE)))

\* C15: the value of a Text token is the content of the literal with `\\`
\* turned into `\` and `\"` into `"`, the leading white space of each line
\* dropped, every run of spaces and tabs collapsed to one space, CRLF turned
\* into LF and the trailing white space and newlines removed.
C15_TextValue ==
    (calls = "token" /\ tok.Type = "Text") => tok.Value = TextValue(Content)

\* A caller that lexes an input made of at most MaxRelexChunks of these
\* pieces and, when Next() returns a Text token, puts its value back between
\* double quotes and hands that to a second Lexer.
MaxRelexChunks == 5

tenDigits == <<"1", "2", "3", "4", "5", "6", "7", "8", "9", "0">>

RelexChunks ==
    { <<"\"">>, <<"\\">>, <<"a">>, <<" ">>, <<"\n">>, tenDigits, <<"Z">> }

InitLexRelex == InitLexOn(RelexChunks, MaxRelexChunks)

RECURSIVE Escape(_)
Escape(v) ==
    IF v = <<>> THEN <<>>
    ELSE IF v[1] \in {"\\", "\""} THEN <<"\\", v[1]>> \o Escape(Tail(v))
    ELSE <<v[1]>> \o Escape(Tail(v))

Requote(v) == <<"\"">> \o Escape(v) \o <<"\"">>

NextCallFirst ==
    /\ twin = NoTwin
    /\ NextCall

Relex ==
    /\ twin = NoTwin
    /\ calls = "token"
    /\ tok.Type = "Text"
    /\ twin' = [l |-> NewLexer(Requote(tok.Value)), tok |-> NoTok, calls |-> "none"]
    /\ UNCHANGED <<l, tok, prev, calls, lexStart, parity, goVars, parseVars, loaderVars>>

TwinCall ==
    /\ twin # NoTwin
    /\ twin.calls # "panic"
    /\ twin' = Called(Next(twin.l))
    /\ UNCHANGED <<l, tok, prev, calls, lexStart, parity, goVars, parseVars, loaderVars>>

SpecLexRelex == InitLexRelex /\ [][NextCallFirst \/ Relex \/ TwinCall]_vars

\* C16: the value v of a Text token, put back between double quotes with `\`
\* and `"` escaped and lexed again, gives one Text token that covers the
\* whole input and whose value is v, and after it only EOF.
C16_TextIdempotent ==
    twin.calls # "none" =>
        /\ twin.calls = "token"
        /\ \/ twin.tok.Type = "EOF"
           \/ /\ twin.tok.Type = "Text"
              /\ twin.tok.Value = tok.Value
              /\ twin.l.pos = Len(twin.l.input)

\* A caller on the inputs made of at most MaxTimeChunks of these pieces.
MaxTimeChunks == 5

twoDigits == <<"1", "2">>

TimeChunks ==
    { <<"\"">>, <<"\\">>, <<"a">>, <<"Z">>, <<"z">>, tenDigits, twoDigits }

InitLexTime == InitLexOn(TimeChunks, MaxTimeChunks)

SpecLexTime == InitLexTime /\ [][NextCall]_vars

\* Where the literal whose opening quote ends at p is closed: the offset after
\* the first quote that no backslash escapes, or -1 when there is none.
RECURSIVE LiteralEnd(_, _)
LiteralEnd(s, p) ==
    IF p >= Len(s) THEN -1
    ELSE IF s[p + 1] = "\"" THEN p + 1
    ELSE IF s[p + 1] = "\\" THEN IF p + 1 >= Len(s) THEN -1 ELSE LiteralEnd(s, p + 2)
    ELSE LiteralEnd(s, p + 1)

\* The last call started at a double quote, and the literal is terminated.
AtLiteral ==
    /\ calls = "token"
    /\ HasAt(l.input, lexStart, <<"\"">>)
    /\ LiteralEnd(l.input, lexStart + 1) # -1

Original == SubSeq(l.input, lexStart + 2, LiteralEnd(l.input, lexStart + 1) - 1)

IsTime(content) ==
    /\ Len(content) \in {11, 13}
    /\ content[Len(content)] \in {"Z", "z"}
    /\ \A i \in 1..(Len(content) - 1) : content[i] \in Digits

\* C17: a terminated double-quoted literal whose content is 10 or 12 digits
\* and Z or z is emitted as ExtUTCTime with the original lexeme, quotes
\* included, and the suffix in upper case; every other terminated literal is
\* emitted as Text.
C17_ExtUTCTime ==
    AtLiteral =>
        IF IsTime(Original)
          THEN /\ tok.Type = "ExtUTCTime"
               /\ tok.Value = <<"\"">> \o SubSeq(Original, 1, Len(Original) - 1) \o <<"Z", "\"">>
          ELSE tok.Type = "Text"

----------------------------------------------------------------------------
(* Claims about single-quoted literals                                     *)

\* A caller on the inputs made of at most MaxQuotedChunks of these pieces.
MaxQuotedChunks == 5

QuotedChunks ==
    { <<"'">>, <<"0">>, <<"A">>, <<"g">>, <<"H">>, <<"b">>, <<"\n">>, <<"xC3", "xA9">> }

InitLexQuoted == InitLexOn(QuotedChunks, MaxQuotedChunks)

SpecLexQuoted == InitLexQuoted /\ [][NextCall]_vars

\* The offset of the first single quote or newline at or after p, or -1.
RECURSIVE QuoteEnd(_, _)
QuoteEnd(s, p) ==
    IF p >= Len(s) THEN -1
    ELSE IF s[p + 1] \in {"'", "\n"} THEN p
    ELSE QuoteEnd(s, p + 1)

\* The literal at lexStart is closed on its line: q is where its closing
\* quote is.
ClosingQuote == QuoteEnd(l.input, lexStart + 1)

Closed == ClosingQuote # -1 /\ l.input[ClosingQuote + 1] = "'"

QuotedContent == SubSeq(l.input, lexStart + 2, ClosingQuote)

HasSuffix(letters) ==
    ClosingQuote + 1 < Len(l.input) /\ l.input[ClosingQuote + 2] \in letters

HexDigits == Digits \cup {"a", "b", "c", "d", "e", "f", "A", "B", "C", "D", "E", "F"}

IsHex ==
    /\ Closed
    /\ HasSuffix({"H", "h"})
    /\ \A i \in 1..Len(QuotedContent) : QuotedContent[i] \in HexDigits

IsBin ==
    /\ Closed
    /\ HasSuffix({"B", "b"})
    /\ \A i \in 1..Len(QuotedContent) : QuotedContent[i] \in {"0", "1"}

\* C18: a single-quoted literal is emitted as HexString exactly when it is
\* closed on its line, its suffix is H or h and its content is hex digits,
\* as BinString exactly when it is closed on its line, its suffix is B or b
\* and its content is 0s and 1s, and as ILLEGAL otherwise; the value of a
\* HexString or BinString is the lexeme itself, quotes and suffix included.
C18_QuotedString ==
    (calls # "none" /\ HasAt(l.input, lexStart, <<"'">>)) =>
        /\ calls = "token"
        /\ tok.Type = "HexString" <=> IsHex
        /\ tok.Type = "BinString" <=> IsBin
        /\ tok.Type \in {"HexString", "BinString", "ILLEGAL"}
        /\ tok.Type \in {"HexString", "BinString"} =>
               tok.Value = SubSeq(l.input, lexStart + 1, ClosingQuote + 2)

C18_Witness ==
    /\ calls = "token"
    /\ tok.Type = "HexString"
    /\ tok.Value = <<"'", "0", "A", "'", "H">>

----------------------------------------------------------------------------
(* Two goroutines                                                          *)

\* token.Symbols (token/token.go:129-156), its first MaxSymbols entries: the
\* token types count up from EOF = -1.
MaxSymbols == 3

SymbolNames == <<"EOF", "ILLEGAL", "Comment", "Whitespace", "Ident", "Int", "Text">>

Symbols == [tt \in (-1)..(MaxSymbols - 2) |-> SymbolNames[tt + 2]]

\* sync.Once: Do(f) calls doSlow(f) when done is not set, and doSlow, with
\* the mutex held, runs f when done is still not set; doSlow_runAlways is
\* that second test, were it left out.
Do_slow(once) == ~once.done

doSlow_runAlways(once) == TRUE

doSlow_run(once) == ~once.done

\* Each goroutine calls Symbols() and then lexes an input of its own, made of
\* at most MaxGoChunks of these pieces: goroutine 1 with the Lexer l,
\* goroutine 2 with the Lexer of twin.
MaxGoChunks == 2

GoChunks == { <<"a">>, <<" ">>, <<";">> }

Goroutines == 1..2

InitGo ==
    /\ \E input \in InputsOf(GoChunks, MaxGoChunks) : l = NewLexer(input)
    /\ \E input \in InputsOf(GoChunks, MaxGoChunks) :
          twin = [l |-> NewLexer(input), tok |-> NoTok, calls |-> "none"]
    /\ tok = NoTok
    /\ prev = NoTok
    /\ calls = "none"
    /\ lexStart = 0
    /\ parity = 0
    /\ cachedSymbols = NilMap
    /\ symbolsOnce = NoOnce
    /\ goroutines = [g \in Goroutines |-> [pc |-> "Symbols", ret |-> NilMap]]
    /\ ParseIdle
    /\ LoaderIdle

At(g, pc) == goroutines # <<>> /\ goroutines[g].pc = pc

Goto(g, pc) == goroutines' = [goroutines EXCEPT ![g].pc = pc]

lexOnly == <<l, tok, prev, calls, lexStart, parity, twin, parseVars>>

\* symbolsOnce.Do(...): the test of done before the mutex is taken.
SymbolsDo(g) ==
    /\ At(g, "Symbols")
    /\ Goto(g, IF Do_slow(symbolsOnce) THEN "Lock" ELSE "return")
    /\ UNCHANGED <<lexOnly, cachedSymbols, symbolsOnce, loaderVars>>

OnceLock(g) ==
    /\ At(g, "Lock")
    /\ symbolsOnce.m = 0
    /\ symbolsOnce' = [symbolsOnce EXCEPT !.m = g]
    /\ Goto(g, "doSlow")
    /\ UNCHANGED <<lexOnly, cachedSymbols, loaderVars>>

OnceSlow(g) ==
    /\ At(g, "doSlow")
    /\ Goto(g, IF doSlow_run(symbolsOnce) THEN "make" ELSE "Unlock")
    /\ UNCHANGED <<lexOnly, cachedSymbols, symbolsOnce, loaderVars>>

\* cachedSymbols = make(map[string]lexer.TokenType)
SymbolsMake(g) ==
    /\ At(g, "make")
    /\ cachedSymbols' = make
    /\ Goto(g, "range")
    /\ UNCHANGED <<lexOnly, symbolsOnce, loaderVars>>

\* One turn of the loop over token.Symbols, in whatever order the map gives.
SymbolsRange(g) ==
    /\ At(g, "range")
    /\ IF \A tt \in DOMAIN Symbols : Symbols[tt] \in DOMAIN cachedSymbols.m
         THEN Goto(g, "Store") /\ UNCHANGED cachedSymbols
         ELSE /\ \E tt \in DOMAIN Symbols :
                   /\ Symbols[tt] \notin DOMAIN cachedSymbols.m
                   /\ cachedSymbols' = insert(cachedSymbols, Symbols[tt], tt)
              /\ UNCHANGED goroutines
    /\ UNCHANGED <<lexOnly, symbolsOnce, loaderVars>>

OnceStore(g) ==
    /\ At(g, "Store")
    /\ symbolsOnce' = [symbolsOnce EXCEPT !.done = TRUE]
    /\ Goto(g, "Unlock")
    /\ UNCHANGED <<lexOnly, cachedSymbols, loaderVars>>

OnceUnlock(g) ==
    /\ At(g, "Unlock")
    /\ symbolsOnce' = [symbolsOnce EXCEPT !.m = 0]
    /\ Goto(g, "return")
    /\ UNCHANGED <<lexOnly, cachedSymbols, loaderVars>>

\* return cachedSymbols
SymbolsReturn(g) ==
    /\ At(g, "return")
    /\ goroutines' = [goroutines EXCEPT ![g] = [pc |-> "lex", ret |-> cachedSymbols]]
    /\ UNCHANGED <<lexOnly, cachedSymbols, symbolsOnce, loaderVars>>

GoNext1 ==
    /\ At(1, "lex")
    /\ NextCall

GoNext2 ==
    /\ At(2, "lex")
    /\ twin.calls # "panic"
    /\ twin' = Called(Next(twin.l))
    /\ UNCHANGED <<l, tok, prev, calls, lexStart, parity, goVars, parseVars, loaderVars>>

SymbolsStep ==
    \E g \in Goroutines :
        \/ SymbolsDo(g)
        \/ OnceLock(g)
        \/ OnceSlow(g)
        \/ SymbolsMake(g)
        \/ SymbolsRange(g)
        \/ OnceStore(g)
        \/ OnceUnlock(g)
        \/ SymbolsReturn(g)

NextGo == SymbolsStep \/ GoNext1 \/ GoNext2

SpecGo == InitGo /\ [][NextGo]_vars

\* What Symbols() returns once the table is built.
FullSymbols ==
    [nil |-> FALSE,
     m |-> [name \in { Symbols[tt] : tt \in DOMAIN Symbols } |->
              CHOOSE tt \in DOMAIN Symbols : Symbols[tt] = name]]

\* Every write of cachedSymbols is made by the goroutine that holds the mutex
\* of symbolsOnce, before done is set, and it is the first assignment or it
\* adds an entry to the map of that assignment.
WrittenOnce ==
    cachedSymbols' # cachedSymbols =>
        /\ ~symbolsOnce.done
        /\ symbolsOnce.m # 0
        /\ \/ cachedSymbols = NilMap /\ cachedSymbols' = make
           \/ /\ ~cachedSymbols.nil
              /\ \E name \in DOMAIN cachedSymbols'.m \ DOMAIN cachedSymbols.m :
                    cachedSymbols' = insert(cachedSymbols, name, cachedSymbols'.m[name])

\* A call of Next() by one goroutine changes its own Lexer only, and to what
\* Next() gives for that Lexer alone.
OwnLexerOnly ==
    /\ l' # l => (twin' = twin /\ l' = Next(l).l /\ tok' = Next(l).tok)
    /\ twin' # twin => (l' = l /\ tok' = tok /\ twin' = Called(Next(twin.l)))

\* C19: two goroutines that lex different inputs at the same time do not
\* affect each other's results: the symbol table they share is initialised
\* once and never written after that, each of them gets the whole table from
\* Symbols(), and each call of Next() works on the caller's own Lexer.
C19_Goroutines ==
    /\ [][WrittenOnce /\ OwnLexerOnly]_vars
    /\ [](\A g \in Goroutines : At(g, "lex") => goroutines[g].ret = FullSymbols)

C19_Witness ==
    /\ At(1, "lex")
    /\ At(2, "lex")
    /\ l.input # twin.l.input
    /\ tok.Type = "Ident"
    /\ twin.tok.Type = "Semicolon"
    /\ cachedSymbols = FullSymbols

----------------------------------------------------------------------------
(* Claims about white space and comments                                   *)

\* C20: Next() never returns a Whitespace or a Comment token: it consumes
\* the white space and the `--` comments before the next lexeme and returns
\* the token of that lexeme, or EOF when nothing but white space and
\* comments is left.
C20_NoWhitespaceOrComment ==
    calls = "token" =>
        /\ tok.Type \notin {"Whitespace", "Comment"}
        /\ tok.Type = "EOF" <=> lexStart = Len(l.input)
        /\ (tok.Type # "Text" /\ tok.Value # <<>>) =>
               /\ ~IsSpace(DecodeRuneInString(tok.Value, 0).r)
               /\ ~HasAt(tok.Value, 0, <<"-", "-">>)

C20_Witness ==
    /\ calls = "token"
    /\ prev = NoTok
    /\ HasAt(l.input, 0, <<"-", "-">>)
    /\ tok.Type = "Ident"

----------------------------------------------------------------------------
(* The lexer the parser is built with (parser.go:17-37): at each offset    *)
(* the rules are tried in the order they are written and the first one     *)
(* whose expression matches there gives the token.  A matcher returns the  *)
(* length of the match of its rule at offset p, or -1.                     *)

Letters == Upper \cup Lower

\* How many bytes from offset p on are in the class.
RECURSIVE ClassRun(_, _, _)
ClassRun(s, p, class) ==
    IF p < Len(s) /\ s[p + 1] \in class THEN 1 + ClassRun(s, p + 1, class) ELSE 0

\* How many bytes from offset p on are not in the class.
RECURSIVE ExceptRun(_, _, _)
ExceptRun(s, p, class) ==
    IF p < Len(s) /\ s[p + 1] \notin class THEN 1 + ExceptRun(s, p + 1, class) ELSE 0

reSpace == {" ", "\t", "\n", "\r", "\f"}

\* first \s+ second
reTwoWords(s, p, first, second) ==
    IF /\ HasAt(s, p, first)
       /\ ClassRun(s, p + Len(first), reSpace) > 0
       /\ HasAt(s, p + Len(first) + ClassRun(s, p + Len(first), reSpace), second)
      THEN Len(first) + ClassRun(s, p + Len(first), reSpace) + Len(second)
    ELSE -1

reComment(s, p) ==
    IF HasAt(s, p, <<"-", "-">>) THEN 2 + ExceptRun(s, p + 2, {"\n"}) ELSE -1

reWhitespace(s, p) ==
    IF ClassRun(s, p, {" ", "\t", "\n", "\r"}) > 0
      THEN ClassRun(s, p, {" ", "\t", "\n", "\r"}) ELSE -1

\* \[APPLICATION\s+\d+\]: q is the offset after the white space.
reASN1Tag_digits(s, p, q) ==
    IF ClassRun(s, q, Digits) > 0 /\ HasAt(s, q + ClassRun(s, q, Digits), <<"]">>)
      THEN q + ClassRun(s, q, Digits) + 1 - p
    ELSE -1

reASN1Tag(s, p) ==
    IF HasAt(s, p, <<"[">> \o kwAPPLICATION) /\ ClassRun(s, p + 12, reSpace) > 0
      THEN reASN1Tag_digits(s, p, p + 12 + ClassRun(s, p + 12, reSpace))
    ELSE -1

Keywords ==
    << <<"F","R","O","M">>, <<"I","M","P","L","I","C","I","T">>, kwAPPLICATION,
       <<"C","H","O","I","C","E">>, <<"S","I","Z","E">>, <<"B","E","G","I","N">>,
       <<"E","N","D">>, <<"D","E","F","I","N","I","T","I","O","N","S">> >>

RECURSIVE reKeyword_from(_, _, _)
reKeyword_from(s, p, i) ==
    IF i > Len(Keywords) THEN -1
    ELSE IF HasAt(s, p, Keywords[i]) THEN Len(Keywords[i])
    ELSE reKeyword_from(s, p, i + 1)

reKeyword(s, p) == reKeyword_from(s, p, 1)

reAssign(s, p) == IF HasAt(s, p, <<":", ":", "=">>) THEN 3 ELSE -1

\* "(\d{10}(\d{2})?[zZ])": n digits, the suffix and the closing quote.
reExtUTCTime_with(s, p, n) ==
    /\ HasAt(s, p, <<"\"">>)
    /\ ClassRun(s, p + 1, Digits) >= n
    /\ p + 1 + n < Len(s)
    /\ s[p + 1 + n + 1] \in {"z", "Z"}
    /\ HasAt(s, p + n + 2, <<"\"">>)

reExtUTCTime(s, p) ==
    IF reExtUTCTime_with(s, p, 12) THEN 15
    ELSE IF reExtUTCTime_with(s, p, 10) THEN 13
    ELSE -1

\* "(\\.|[^"])*": the offset after the closing quote that the expression's
\* preferred match ends at, from offset q inside the literal, or -1.
RECURSIVE reText_end(_, _)
reText_escaped(s, q, e) == IF e # -1 THEN e ELSE reText_end(s, q + 1)

reText_end(s, q) ==
    IF q >= Len(s) THEN -1
    ELSE IF s[q + 1] = "\"" THEN q + 1
    ELSE IF s[q + 1] = "\\" /\ q + 1 < Len(s) /\ s[q + 2] # "\n"
      THEN reText_escaped(s, q, reText_end(s, q + 2))
    ELSE reText_end(s, q + 1)

reText(s, p) ==
    IF HasAt(s, p, <<"\"">>) /\ reText_end(s, p + 1) # -1
      THEN reText_end(s, p + 1) - p
    ELSE -1

\* '[class]+'[suffix]
reQuoted(s, p, class, suffix) ==
    IF /\ HasAt(s, p, <<"'">>)
       /\ ClassRun(s, p + 1, class) > 0
       /\ HasAt(s, p + 1 + ClassRun(s, p + 1, class), <<"'">>)
       /\ p + 2 + ClassRun(s, p + 1, class) < Len(s)
       /\ s[p + 3 + ClassRun(s, p + 1, class)] \in suffix
      THEN ClassRun(s, p + 1, class) + 3
    ELSE -1

reIdent(s, p) ==
    IF p < Len(s) /\ s[p + 1] \in Letters
      THEN 1 + ClassRun(s, p + 1, Letters \cup Digits \cup {"_", "-"})
    ELSE -1

\* 0|[1-9]\d*
reInt(s, p) ==
    IF HasAt(s, p, <<"0">>) THEN 1
    ELSE IF p < Len(s) /\ s[p + 1] \in Digits THEN 1 + ClassRun(s, p + 1, Digits)
    ELSE -1

\* \.\.|[!-/:-@\[\\\x60{-\~]; the byte 0x60 is written "x60".
PunctClass ==
    {"!", "\"", "#", "$", "%", "&", "'", "(", ")", "*", "+", ",", "-", ".", "/",
     ":", ";", "<", "=", ">", "?", "@", "[", "\\", "x60", "{", "|", "}", "~"}

rePunct(s, p) ==
    IF HasAt(s, p, <<".", ".">>) THEN 2
    ELSE IF p < Len(s) /\ s[p + 1] \in PunctClass THEN 1
    ELSE -1

\* The rules in their order: the name of the first rule that matches at p
\* and the length of its match, or no rule and -1.
smiLexer_rules(s, p) ==
    IF reComment(s, p) # -1 THEN [Name |-> "Comment", n |-> reComment(s, p)]
    ELSE IF reWhitespace(s, p) # -1 THEN [Name |-> "Whitespace", n |-> reWhitespace(s, p)]
    ELSE IF reTwoWords(s, p, kwOBJECT, kwIDENTIFIER) # -1
      THEN [Name |-> "ObjectIdentifier", n |-> reTwoWords(s, p, kwOBJECT, kwIDENTIFIER)]
    ELSE IF reTwoWords(s, p, kwOCTET, kwSTRING) # -1
      THEN [Name |-> "OctetString", n |-> reTwoWords(s, p, kwOCTET, kwSTRING)]
    ELSE IF reASN1Tag(s, p) # -1 THEN [Name |-> "ASN1Tag", n |-> reASN1Tag(s, p)]
    ELSE IF reKeyword(s, p) # -1 THEN [Name |-> "Keyword", n |-> reKeyword(s, p)]
    ELSE IF reAssign(s, p) # -1 THEN [Name |-> "Assign", n |-> reAssign(s, p)]
    ELSE IF reExtUTCTime(s, p) # -1 THEN [Name |-> "ExtUTCTime", n |-> reExtUTCTime(s, p)]
    ELSE IF reText(s, p) # -1 THEN [Name |-> "Text", n |-> reText(s, p)]
    ELSE IF reQuoted(s, p, {"0", "1"}, {"b", "B"}) # -1
      THEN [Name |-> "BinString", n |-> reQuoted(s, p, {"0", "1"}, {"b", "B"})]
    ELSE IF reQuoted(s, p, HexDigits, {"h", "H"}) # -1
      THEN [Name |-> "HexString", n |-> reQuoted(s, p, HexDigits, {"h", "H"})]
    ELSE IF reIdent(s, p) # -1 THEN [Name |-> "Ident", n |-> reIdent(s, p)]
    ELSE IF reInt(s, p) # -1 THEN [Name |-> "Int", n |-> reInt(s, p)]
    ELSE IF rePunct(s, p) # -1 THEN [Name |-> "Punct", n |-> rePunct(s, p)]
    ELSE [Name |-> "", n |-> -1]

\* What the options of the parser do to a token's value (parser.go:42-72).
RECURSIVE ReplaceAll(_, _, _)
ReplaceAll(v, old, new) ==
    IF v = <<>> THEN <<>>
    ELSE IF HasAt(v, 0, old) THEN new \o ReplaceAll(SubSeq(v, Len(old) + 1, Len(v)), old, new)
    ELSE <<Head(v)>> \o ReplaceAll(Tail(v), old, new)

goSpace == {" ", "\t", "\n", "\r", "\f", "x0B"}

RECURSIVE TrimSpace(_)
TrimSpace(v) ==
    IF v # <<>> /\ Head(v) \in goSpace THEN TrimSpace(Tail(v))
    ELSE IF v # <<>> /\ v[Len(v)] \in goSpace THEN TrimSpace(SubSeq(v, 1, Len(v) - 1))
    ELSE v

\* (?:\r?\n *)+ at the head of v: its length, or 0.
RECURSIVE compressSpace_len(_, _)
compressSpace_len(v, p) ==
    IF HasAt(v, p, <<"\n">>)
      THEN 1 + ClassRun(v, p + 1, {" "})
             + compressSpace_len(v, p + 1 + ClassRun(v, p + 1, {" "}))
    ELSE IF HasAt(v, p, <<"\r", "\n">>)
      THEN 2 + ClassRun(v, p + 2, {" "})
             + compressSpace_len(v, p + 2 + ClassRun(v, p + 2, {" "}))
    ELSE 0

RECURSIVE compressSpace(_)
compressSpace(v) ==
    IF v = <<>> THEN <<>>
    ELSE IF compressSpace_len(v, 0) > 0
      THEN <<"\n">> \o compressSpace(SubSeq(v, compressSpace_len(v, 0) + 1, Len(v)))
    ELSE <<Head(v)>> \o compressSpace(Tail(v))

UpperSeq == <<"A","B","C","D","E","F","G","H","I","J","K","L","M",
              "N","O","P","Q","R","S","T","U","V","W","X","Y","Z">>
LowerSeq == <<"a","b","c","d","e","f","g","h","i","j","k","l","m",
              "n","o","p","q","r","s","t","u","v","w","x","y","z">>

ToUpper(v) ==
    [i \in 1..Len(v) |->
       IF \E k \in 1..26 : LowerSeq[k] = v[i]
         THEN UpperSeq[CHOOSE k \in 1..26 : LowerSeq[k] = v[i]]
       ELSE v[i]]

mapText(v) ==
    compressSpace(TrimSpace(
        ReplaceAll(ReplaceAll(SubSeq(v, 2, Len(v) - 1), <<"\\", "\\">>, <<"\\">>),
                   <<"\\", "\"">>, <<"\"">>)))

smiParser_value(name, v) ==
    IF name = "ObjectIdentifier" THEN kwOBJECT \o <<" ">> \o kwIDENTIFIER
    ELSE IF name = "OctetString" THEN kwOCTET \o <<" ">> \o kwSTRING
    ELSE IF name = "Text" THEN mapText(v)
    ELSE IF name = "ExtUTCTime" THEN ToUpper(SubSeq(v, 2, Len(v) - 1))
    ELSE IF name \in {"BinString", "HexString"} THEN ToUpper(v)
    ELSE v

\* The tokens of s from offset p on, Whitespace and Comment elided; err is
\* set when no rule matches somewhere.
RECURSIVE smiLexer_tokens(_, _)
smiLexer_token(s, p, r) ==
    IF r.Name \in {"Whitespace", "Comment"} THEN smiLexer_tokens(s, p + r.n)
    ELSE [smiLexer_tokens(s, p + r.n) EXCEPT
            !.tokens = << [Type |-> r.Name,
                           Value |-> smiParser_value(r.Name, SubSeq(s, p + 1, p + r.n)),
                           Offset |-> p] >> \o @]

smiLexer_at(s, p, r) ==
    IF r.n = -1 THEN [tokens |-> <<>>, cursor |-> 0, err |-> TRUE]
    ELSE smiLexer_token(s, p, r)

smiLexer_tokens(s, p) ==
    IF p >= Len(s) THEN NoPeeking
    ELSE smiLexer_at(s, p, smiLexer_rules(s, p))

\* lexer.Upgrade(smiLexer.Lex(r), elided...): the PeekingLexer over all the
\* tokens of the input.
Upgrade(s) == smiLexer_tokens(s, 0)

----------------------------------------------------------------------------
(* Numbers under both lexers: the hand-written one is driven call by call, *)
(* the parser's one reads the whole input when the parser is handed it.    *)

MaxIntChunks == 3

IntChunks == { <<"0">>, <<"7">>, <<"1">>, <<"a">>, <<" ">> }

InitLexInts == InitLexOn(IntChunks, MaxIntChunks)

\* lexer.Upgrade over the input the hand-written lexer was given.
UpgradeCall ==
    /\ parsed = NoParsed
    /\ lex' = Upgrade(l.input)
    /\ parsed' = [NoParsed EXCEPT !.op = "Upgrade", !.err = lex'.err]
    /\ UNCHANGED <<l, tok, prev, calls, lexStart, parity, twin, goVars, loaderVars>>

NextLexInts == NextCall \/ UpgradeCall

SpecLexInts == InitLexInts /\ [][NextLexInts]_vars

\* The n bytes of s from offset off are a whole run of decimal digits.
WholeDigitRun(s, off, n) ==
    /\ n > 0
    /\ \A i \in (off + 1)..(off + n) : s[i] \in Digits
    /\ off = 0 \/ s[off] \notin Digits
    /\ off + n = Len(s) \/ s[off + n + 1] \notin Digits

\* C21: every Int token, of the hand-written lexer and of the lexer the
\* parser is built with, holds a whole maximal run of decimal digits, so
\* that a run such as 007 is one token.
C21_IntIsWholeRun ==
    /\ (calls = "token" /\ tok.Type = "Int") =>
           /\ WholeDigitRun(l.input, lexStart, Len(tok.Value))
           /\ tok.Value = SubSeq(l.input, lexStart + 1, lexStart + Len(tok.Value))
    /\ \A i \in DOMAIN lex.tokens :
           lex.tokens[i].Type = "Int" =>
               WholeDigitRun(l.input, lex.tokens[i].Offset, Len(lex.tokens[i].Value))

\* The hand-written lexer alone keeps the run whole.
C21_HandWritten ==
    (calls = "token" /\ tok.Type = "Int") =>
        WholeDigitRun(l.input, lexStart, Len(tok.Value))

----------------------------------------------------------------------------
(* Identifiers that begin with one of the parser's keywords.               *)

MaxKeywordChunks == 3

KeywordChunks ==
    { kwAPPLICATION, <<"F", "R", "O", "M">>, <<"M", "I", "B">>, <<"-">>, <<" ">>, <<";">> }

InitLexKeywords == InitLexOn(KeywordChunks, MaxKeywordChunks)

SpecLexKeywords == InitLexKeywords /\ [][NextLexInts]_vars

\* The identifier goes on at offset q: a letter or a digit, or a hyphen
\* before one.
GoesOn(s, q) ==
    /\ q < Len(s)
    /\ \/ s[q + 1] \in Letters \cup Digits
       \/ s[q + 1] = "-" /\ q + 1 < Len(s) /\ s[q + 2] \in Letters \cup Digits

\* At offset off a keyword is written and the identifier goes on after it.
KeywordPrefixed(s, off) ==
    \E i \in DOMAIN Keywords :
        HasAt(s, off, Keywords[i]) /\ GoesOn(s, off + Len(Keywords[i]))

\* The length of the identifier written at offset off.
IdentLength(s, off) == reIdent(s, off)

\* C22: an identifier that begins with a parser keyword, such as
\* APPLICATION-SPECIFIC-MIB after FROM, is one identifier token holding
\* the whole name, under the hand-written lexer and under the lexer the
\* parser is built with.
C22_KeywordPrefixedIdent ==
    /\ (calls = "token" /\ KeywordPrefixed(l.input, lexStart)) =>
           /\ tok.Type = "Ident"
           /\ Len(tok.Value) = IdentLength(l.input, lexStart)
    /\ \A i \in DOMAIN lex.tokens :
           KeywordPrefixed(l.input, lex.tokens[i].Offset) =>
               /\ lex.tokens[i].Type = "Ident"
               /\ Len(lex.tokens[i].Value) = IdentLength(l.input, lex.tokens[i].Offset)

\* The hand-written lexer alone gives the one identifier.
C22_HandWritten ==
    (calls = "token" /\ KeywordPrefixed(l.input, lexStart)) =>
        /\ tok.Type = "Ident"
        /\ Len(tok.Value) = IdentLength(l.input, lexStart)

----------------------------------------------------------------------------
(* The grammar over the tokens.  A node of the grammar is an operator of   *)
(* the token list ts and the cursor c; it gives back whether it failed,    *)
(* whether the failure is past the one token of lookahead (then the        *)
(* enclosing optional, repetition or alternative cannot be given up and    *)
(* the whole parse fails), whether it matched, and the cursor after it.    *)

EOFTok == [Type |-> "EOF", Value |-> <<>>, Offset |-> -1]

\* PeekingLexer: the token c places after the start, EOF past the end.
TokAt(ts, c) == IF c < Len(ts) THEN ts[c + 1] ELSE EOFTok

Matched(c, v) == [err |-> FALSE, fatal |-> FALSE, matched |-> TRUE, cursor |-> c, value |-> v]
NoMatch(c) == [err |-> FALSE, fatal |-> FALSE, matched |-> FALSE, cursor |-> c, value |-> <<>>]
Failed(c) == [err |-> TRUE, fatal |-> FALSE, matched |-> FALSE, cursor |-> c, value |-> <<>>]
Fatal(c) == [err |-> TRUE, fatal |-> TRUE, matched |-> FALSE, cursor |-> c, value |-> <<>>]

\* The kinds of token a range bound may be besides "-"? Int, in common.go
\* and in its other revision.
RangeKinds == {"BinString", "HexString"}
RangeKindsIdent == {"BinString", "HexString", "Ident"}

\* @( "-"? Int | BinString | HexString ... )
Range_bound(ts, c, kinds) ==
    IF TokAt(ts, c).Value = <<"-">> /\ TokAt(ts, c + 1).Type = "Int"
      THEN Matched(c + 2, <<"-">> \o TokAt(ts, c + 1).Value)
    ELSE IF TokAt(ts, c).Type = "Int" \/ TokAt(ts, c).Type \in kinds
      THEN Matched(c + 1, TokAt(ts, c).Value)
    ELSE Failed(c)

\* ( ".." @( ... ) )? after the start bound.
Range_end(ts, start, end) ==
    IF TokAt(ts, start.cursor).Value = <<".", ".">> /\ ~end.err
      THEN Matched(end.cursor, [Start |-> start.value, End |-> end.value])
    ELSE Matched(start.cursor, [Start |-> start.value, End |-> <<>>])

Range_from(ts, start, kinds) ==
    IF start.err THEN Failed(start.cursor)
    ELSE Range_end(ts, start, Range_bound(ts, start.cursor + 1, kinds))

Range(ts, c, kinds) == Range_from(ts, Range_bound(ts, c, kinds), kinds)

\* ( "|" @@ )*
RECURSIVE Range_more(_, _, _)
Range_next(ts, c, kinds, r) ==
    IF r.err THEN Matched(c, <<>>)
    ELSE Matched(Range_more(ts, r.cursor, kinds).cursor,
                 <<r.value>> \o Range_more(ts, r.cursor, kinds).value)

Range_more(ts, c, kinds) ==
    IF TokAt(ts, c).Value = <<"|">> THEN Range_next(ts, c, kinds, Range(ts, c + 1, kinds))
    ELSE Matched(c, <<>>)

\* @@ ( "|" @@ )*
Range_list_rest(ts, r, more) ==
    IF r.err THEN Failed(r.cursor)
    ELSE Matched(more.cursor, <<r.value>> \o more.value)

Range_list_from(ts, r, kinds) ==
    Range_list_rest(ts, r, IF r.err THEN r ELSE Range_more(ts, r.cursor, kinds))

Range_list(ts, c, kinds) == Range_list_from(ts, Range(ts, c, kinds), kinds)

\* SubType: ( "SIZE" "(" @@ ( "|" @@ )* ")" ) | @@ ( "|" @@ )*
SubType_size(ts, c, rs) ==
    IF rs.err THEN Fatal(c + 2)
    ELSE IF TokAt(ts, rs.cursor).Value # <<")">> THEN Fatal(rs.cursor)
    ELSE Matched(rs.cursor + 1, [OctetString |-> rs.value, Integer |-> <<>>])

SubType_integer(rs) ==
    IF rs.err THEN Failed(rs.cursor)
    ELSE Matched(rs.cursor, [OctetString |-> <<>>, Integer |-> rs.value])

SubType(ts, c, kinds) ==
    IF TokAt(ts, c).Value = <<"S", "I", "Z", "E">> /\ TokAt(ts, c + 1).Value = <<"(">>
      THEN SubType_size(ts, c, Range_list(ts, c + 2, kinds))
    ELSE SubType_integer(Range_list(ts, c, kinds))

\* SyntaxType: ( "(" @@ ")" ) of the optional group after the name.
SyntaxType_close(ts, c, st) ==
    IF st.fatal THEN st
    ELSE IF st.err THEN NoMatch(c)
    ELSE IF TokAt(ts, st.cursor).Value # <<")">> THEN Fatal(st.cursor)
    ELSE Matched(st.cursor + 1, st.value)

SyntaxType_SubType(ts, c, kinds) ==
    IF TokAt(ts, c).Value # <<"(">> THEN NoMatch(c)
    ELSE SyntaxType_close(ts, c, SubType(ts, c + 1, kinds))

\* The outcome of a node as the parser's state keeps it.
Outcome(op, c, r) ==
    [op |-> op, err |-> r.err, value |-> IF r.matched THEN <<r.value>> ELSE <<>>,
     consumed |-> r.cursor - c]

ParseCall(op, r) ==
    /\ parsed.op = "Upgrade"
    /\ ~lex.err
    /\ parsed' = Outcome(op, lex.cursor, r)
    /\ lex' = [lex EXCEPT !.cursor = r.cursor]
    /\ UNCHANGED <<l, tok, prev, calls, lexStart, parity, twin, goVars, loaderVars>>

----------------------------------------------------------------------------
(* Range bounds.                                                           *)

MaxRangeChunks == 5

RangeChunks ==
    { <<"(">>, <<")">>, <<".", ".">>, <<"0">>, <<"1", "0", "0">>, <<"M", "A", "X">>,
      <<"M", "I", "N">>, <<"-">> }

InitRanges == InitLexOn(RangeChunks, MaxRangeChunks)

SubTypeCall == ParseCall("SubType", SyntaxType_SubType(lex.tokens, lex.cursor, RangeKinds))

NextRanges == UpgradeCall \/ SubTypeCall

SpecRanges == InitRanges /\ [][NextRanges]_vars

\* The tokens are ( b1 .. b2 ) with each bound a number, MIN or MAX.
IsBound(t) == t.Type = "Int" \/ t.Value \in {<<"M", "A", "X">>, <<"M", "I", "N">>}

BoundedRange(ts) ==
    /\ Len(ts) = 5
    /\ ts[1].Value = <<"(">> /\ ts[3].Value = <<".", ".">> /\ ts[5].Value = <<")">>
    /\ IsBound(ts[2]) /\ IsBound(ts[4])

\* C23: a refinement ( b1 .. b2 ) whose bounds are numbers, MIN or MAX
\* parses, and each bound is stored as the text it was written with.
C23_MinMaxBounds ==
    (parsed.op = "SubType" /\ BoundedRange(lex.tokens)) =>
        /\ ~parsed.err
        /\ parsed.consumed = 5
        /\ parsed.value =
             << [OctetString |-> <<>>,
                 Integer |-> << [Start |-> lex.tokens[2].Value,
                                 End |-> lex.tokens[4].Value] >>] >>

\* With Ident among the kinds of a bound, as in the other revision of
\* common.go, the same refinements parse.
C23_WithIdent ==
    (parsed.op = "SubType" /\ BoundedRange(lex.tokens)) =>
        SyntaxType_SubType(lex.tokens, 0, RangeKindsIdent) =
            Matched(5, [OctetString |-> <<>>,
                        Integer |-> << [Start |-> lex.tokens[2].Value,
                                        End |-> lex.tokens[4].Value] >>])

----------------------------------------------------------------------------
(* Entry lists of SEQUENCE and CHOICE.                                     *)

\* NamedNumber: @Ident "(" @( "-"? Int ) ")".  Past the name every failure
\* is two tokens or more into the branch it is tried on.
NamedNumber_value(ts, c, v) ==
    IF v.err \/ TokAt(ts, v.cursor).Value # <<")">> THEN Fatal(v.cursor)
    ELSE Matched(v.cursor + 1, [Name |-> TokAt(ts, c).Value, Value |-> v.value])

NamedNumber(ts, c) ==
    IF TokAt(ts, c).Type # "Ident" THEN NoMatch(c)
    ELSE IF TokAt(ts, c + 1).Value # <<"(">> THEN Fatal(c + 1)
    ELSE NamedNumber_value(ts, c, Range_bound(ts, c + 2, {}))

\* ( "," @@ )* of named numbers.
RECURSIVE Enum_more(_, _)
Enum_next(ts, c, n) ==
    IF n.fatal THEN n
    ELSE IF ~n.matched THEN Matched(c, <<>>)
    ELSE IF Enum_more(ts, n.cursor).err THEN Enum_more(ts, n.cursor)
    ELSE Matched(Enum_more(ts, n.cursor).cursor, <<n.value>> \o Enum_more(ts, n.cursor).value)

Enum_more(ts, c) ==
    IF TokAt(ts, c).Value = <<",">> THEN Enum_next(ts, c, NamedNumber(ts, c + 1))
    ELSE Matched(c, <<>>)

\* ","? "}"
Enum_close(ts, c, v) ==
    IF TokAt(ts, c).Value = <<",">> /\ TokAt(ts, c + 1).Value = <<"}">> THEN Matched(c + 2, v)
    ELSE IF TokAt(ts, c).Value = <<"}">> THEN Matched(c + 1, v)
    ELSE Fatal(c)

Enum_rest(ts, n, more) ==
    IF more.err THEN more ELSE Enum_close(ts, more.cursor, <<n.value>> \o more.value)

Enum_first(ts, c, n) ==
    IF n.fatal THEN n
    ELSE IF ~n.matched THEN NoMatch(c)
    ELSE Enum_rest(ts, n, Enum_more(ts, n.cursor))

\* SyntaxType: ( "{" @@ ( "," @@ )* ","? "}" ) of the optional group.
SyntaxType_Enum(ts, c) ==
    IF TokAt(ts, c).Value # <<"{">> THEN NoMatch(c)
    ELSE Enum_first(ts, c, NamedNumber(ts, c + 1))

\* The same were the two refinements one after the other, each optional.
SyntaxType_groupBoth(ts, c, sub, enum) ==
    IF sub.fatal THEN sub
    ELSE IF sub.matched /\ SyntaxType_Enum(ts, sub.cursor).matched
      THEN Matched(SyntaxType_Enum(ts, sub.cursor).cursor,
                   [Name |-> TokAt(ts, c).Value, SubType |-> <<sub.value>>,
                    Enum |-> SyntaxType_Enum(ts, sub.cursor).value])
    ELSE IF sub.matched
      THEN Matched(sub.cursor, [Name |-> TokAt(ts, c).Value, SubType |-> <<sub.value>>, Enum |-> <<>>])
    ELSE IF enum.fatal THEN enum
    ELSE IF enum.matched
      THEN Matched(enum.cursor, [Name |-> TokAt(ts, c).Value, SubType |-> <<>>, Enum |-> enum.value])
    ELSE Matched(c + 1, [Name |-> TokAt(ts, c).Value, SubType |-> <<>>, Enum |-> <<>>])

\* SyntaxType: the name and the optional refinement.
SyntaxType_group(ts, c, sub, enum) ==
    IF sub.fatal THEN sub
    ELSE IF sub.matched
      THEN Matched(sub.cursor, [Name |-> TokAt(ts, c).Value, SubType |-> <<sub.value>>, Enum |-> <<>>])
    ELSE IF enum.fatal THEN enum
    ELSE IF enum.matched
      THEN Matched(enum.cursor, [Name |-> TokAt(ts, c).Value, SubType |-> <<>>, Enum |-> enum.value])
    ELSE Matched(c + 1, [Name |-> TokAt(ts, c).Value, SubType |-> <<>>, Enum |-> <<>>])

SyntaxType(ts, c, kinds) ==
    IF TokAt(ts, c).Type \notin {"OctetString", "ObjectIdentifier", "Ident"} THEN NoMatch(c)
    ELSE SyntaxType_group(ts, c, SyntaxType_SubType(ts, c + 1, kinds), SyntaxType_Enum(ts, c + 1))

\* SequenceEntry: @Ident @@
SequenceEntry_syntax(ts, c, st) ==
    IF st.fatal THEN st
    ELSE IF ~st.matched THEN Failed(c + 1)
    ELSE Matched(st.cursor, [Descriptor |-> TokAt(ts, c).Value, Syntax |-> st.value])

SequenceEntry(ts, c, kinds) ==
    IF TokAt(ts, c).Type # "Ident" THEN NoMatch(c)
    ELSE SequenceEntry_syntax(ts, c, SyntaxType(ts, c + 1, kinds))

\* ( "," @@ )* of entries: the branch starts at the comma, and an entry
\* that fails after its name is past the lookahead.
RECURSIVE Sequence_more(_, _, _)
Sequence_next(ts, c, kinds, e) ==
    IF e.err THEN Fatal(e.cursor)
    ELSE IF ~e.matched THEN Matched(c, <<>>)
    ELSE IF Sequence_more(ts, e.cursor, kinds).err THEN Sequence_more(ts, e.cursor, kinds)
    ELSE Matched(Sequence_more(ts, e.cursor, kinds).cursor,
                 <<e.value>> \o Sequence_more(ts, e.cursor, kinds).value)

Sequence_more(ts, c, kinds) ==
    IF TokAt(ts, c).Value = <<",">> THEN Sequence_next(ts, c, kinds, SequenceEntry(ts, c + 1, kinds))
    ELSE Matched(c, <<>>)

\* Sequence: @( "CHOICE" | "SEQUENCE" ) "{" @@ ( "," @@ )* "}"
Sequence_close(ts, c, e, more) ==
    IF more.err THEN more
    ELSE IF TokAt(ts, more.cursor).Value # <<"}">> THEN Fatal(more.cursor)
    ELSE Matched(more.cursor + 1, [Type |-> TokAt(ts, c).Value, Entries |-> <<e.value>> \o more.value])

Sequence_entries(ts, c, kinds, e) ==
    IF e.err THEN Fatal(e.cursor)
    ELSE IF ~e.matched THEN Fatal(c + 2)
    ELSE Sequence_close(ts, c, e, Sequence_more(ts, e.cursor, kinds))

Sequence(ts, c, kinds) ==
    IF TokAt(ts, c).Value \notin {<<"C", "H", "O", "I", "C", "E">>, <<"S", "E", "Q", "U", "E", "N", "C", "E">>}
      THEN NoMatch(c)
    ELSE IF TokAt(ts, c + 1).Value # <<"{">> THEN Failed(c + 1)
    ELSE Sequence_entries(ts, c, kinds, SequenceEntry(ts, c + 2, kinds))

MaxSequenceChunks == 5

SequenceChunks ==
    { <<"S", "E", "Q", "U", "E", "N", "C", "E", "{">>, <<"C", "H", "O", "I", "C", "E", "{">>,
      <<"f", " ">>, <<"f", " ", "T">>, <<",">>, <<"}">> }

InitSequences == InitLexOn(SequenceChunks, MaxSequenceChunks)

SequenceCall == ParseCall("Sequence", Sequence(lex.tokens, lex.cursor, RangeKinds))

NextSequences == UpgradeCall \/ SequenceCall

SpecSequences == InitSequences /\ [][NextSequences]_vars

\* The token list without its last but one token.
DropComma(ts) == SubSeq(ts, 1, Len(ts) - 2) \o <<ts[Len(ts)]>>

\* The tokens are an entry list that parses, with a comma put before "}".
TrailingComma(ts) ==
    /\ Len(ts) >= 5
    /\ ts[Len(ts)].Value = <<"}">>
    /\ ts[Len(ts) - 1].Value = <<",">>
    /\ Sequence(DropComma(ts), 0, RangeKinds).matched
    /\ Sequence(DropComma(ts), 0, RangeKinds).cursor = Len(ts) - 1

\* C24: a comma after the last entry of a SEQUENCE or CHOICE entry list is
\* accepted, and the entries are those of the list without it.
C24_TrailingComma ==
    (parsed.op = "Sequence" /\ TrailingComma(lex.tokens)) =>
        /\ ~parsed.err
        /\ parsed.consumed = Len(lex.tokens)
        /\ parsed.value = <<Sequence(DropComma(lex.tokens), 0, RangeKinds).value>>

----------------------------------------------------------------------------
(* Object identifiers.  A number is kept as its decimal digits without     *)
(* leading zeros, so that a value beyond 32 bits can be told from one      *)
(* within.                                                                 *)

DigitSeq == <<"0", "1", "2", "3", "4", "5", "6", "7", "8", "9">>

DigitVal(d) == CHOOSE k \in 0..9 : DigitSeq[k + 1] = d

RECURSIVE StripZeros(_)
StripZeros(v) == IF Len(v) > 1 /\ Head(v) = "0" THEN StripZeros(Tail(v)) ELSE v

\* a <= b for two numbers of as many digits.
RECURSIVE DigitsLeq(_, _)
DigitsLeq(a, b) ==
    \/ a = <<>>
    \/ DigitVal(Head(a)) < DigitVal(Head(b))
    \/ Head(a) = Head(b) /\ DigitsLeq(Tail(a), Tail(b))

\* The largest value of 32 bits, 1<<32 - 1.
MaxUint32 == <<"4", "2", "9", "4", "9", "6", "7", "2", "9", "5">>

\* strconv.ParseUint(v, 10, 32) that takes any number of digits.
ParseUintAny(v) ==
    [err |-> v = <<>> \/ \E i \in DOMAIN v : v[i] \notin Digits, n |-> StripZeros(v)]

\* strconv.ParseUint(v, 10, 32): a syntax error, or a range error beyond
\* 32 bits.
ParseUint(v) ==
    [err |-> \/ v = <<>>
             \/ \E i \in DOMAIN v : v[i] \notin Digits
             \/ Len(StripZeros(v)) > Len(MaxUint32)
             \/ Len(StripZeros(v)) = Len(MaxUint32) /\ ~DigitsLeq(StripZeros(v), MaxUint32),
     n |-> StripZeros(v)]

\* PeekingLexer.Next: the cursor after it, which stays at EOF.
lexNext(ts, c) == IF c < Len(ts) THEN c + 1 ELSE c

\* SubIdentifier.Parse from "(" on, taking a number without its ")".
SubIdentifier_numberOpen(ts, c) ==
    IF TokAt(ts, c + 2).Type # "Int" THEN Failed(lexNext(ts, c + 2))
    ELSE IF ParseUint(TokAt(ts, c + 2).Value).err THEN Failed(c + 3)
    ELSE Matched(c + 3, [Name |-> TokAt(ts, c).Value, Number |-> ParseUint(TokAt(ts, c + 2).Value).n])

\* SubIdentifier.Parse from "(" on: the number and ")".
SubIdentifier_number(ts, c) ==
    IF TokAt(ts, c + 2).Type # "Int" THEN Failed(lexNext(ts, c + 2))
    ELSE IF ParseUint(TokAt(ts, c + 2).Value).err THEN Failed(c + 3)
    ELSE IF TokAt(ts, c + 3).Value # <<")">> \/ TokAt(ts, c + 3).Type = "EOF"
      THEN Failed(lexNext(ts, c + 3))
    ELSE Matched(c + 4, [Name |-> TokAt(ts, c).Value, Number |-> ParseUint(TokAt(ts, c + 2).Value).n])

SubIdentifier_ParseOpen(ts, c) ==
    IF TokAt(ts, c).Type = "EOF" THEN Failed(c)
    ELSE IF TokAt(ts, c).Type = "Int"
      THEN IF ParseUint(TokAt(ts, c).Value).err THEN Failed(c + 1)
           ELSE Matched(c + 1, [Name |-> <<>>, Number |-> ParseUint(TokAt(ts, c).Value).n])
    ELSE IF TokAt(ts, c).Type # "Ident" THEN Failed(c + 1)
    ELSE IF TokAt(ts, c + 1).Type = "EOF" \/ TokAt(ts, c + 1).Value # <<"(">>
      THEN Matched(c + 1, [Name |-> TokAt(ts, c).Value, Number |-> <<>>])
    ELSE SubIdentifier_numberOpen(ts, c)

\* SubIdentifier.Parse: the tokens it takes stay taken when it fails.
SubIdentifier_Parse(ts, c) ==
    IF TokAt(ts, c).Type = "EOF" THEN Failed(c)
    ELSE IF TokAt(ts, c).Type = "Int"
      THEN IF ParseUint(TokAt(ts, c).Value).err THEN Failed(c + 1)
           ELSE Matched(c + 1, [Name |-> <<>>, Number |-> ParseUint(TokAt(ts, c).Value).n])
    ELSE IF TokAt(ts, c).Type # "Ident" THEN Failed(c + 1)
    ELSE IF TokAt(ts, c + 1).Type = "EOF" \/ TokAt(ts, c + 1).Value # <<"(">>
      THEN Matched(c + 1, [Name |-> TokAt(ts, c).Value, Number |-> <<>>])
    ELSE SubIdentifier_number(ts, c)

\* The repetition of @@+ : a sub-identifier that fails within the lookahead
\* ends the list, one that fails further on fails the parse.
RECURSIVE Oid_loop(_, _)
Oid_step(ts, c, r) ==
    IF r.err /\ r.cursor > c + 1 THEN Fatal(r.cursor)
    ELSE IF r.err THEN Matched(c, <<>>)
    ELSE IF Oid_loop(ts, r.cursor).err THEN Oid_loop(ts, r.cursor)
    ELSE Matched(Oid_loop(ts, r.cursor).cursor, <<r.value>> \o Oid_loop(ts, r.cursor).value)

\* The repetition with commas passed over between sub-identifiers.
Oid_loopCommas(ts, c) ==
    IF TokAt(ts, c).Value = <<",">> THEN Oid_loop(ts, c + 1)
    ELSE Oid_step(ts, c, SubIdentifier_Parse(ts, c))

Oid_loop(ts, c) == Oid_step(ts, c, SubIdentifier_Parse(ts, c))

\* Oid with @@* for its list.
OidAny(ts, c) == Oid_loop(ts, c)

\* Oid: SubIdentifiers @@+, at least one.
Oid(ts, c) ==
    IF ~Oid_loop(ts, c).err /\ Oid_loop(ts, c).value = <<>> THEN Failed(c)
    ELSE Oid_loop(ts, c)

\* "{" Oid "}"
OidRef_close(ts, o) ==
    IF o.err THEN Fatal(o.cursor)
    ELSE IF TokAt(ts, o.cursor).Value # <<"}">> THEN Fatal(o.cursor)
    ELSE Matched(o.cursor + 1, o.value)

OidRef(ts, c) ==
    IF TokAt(ts, c).Value # <<"{">> THEN NoMatch(c)
    ELSE OidRef_close(ts, Oid(ts, c + 1))

MaxOidChunks == 5

OidChunks ==
    { <<"{">>, <<"}">>, <<",">>, <<"i", "s", "o", " ">>, <<"3", " ">>,
      <<"o", "(", "3", ")", " ">> }

InitOids == InitLexOn(OidChunks, MaxOidChunks)

OidCall == ParseCall("Oid", Oid(lex.tokens, lex.cursor))

OidRefCall == ParseCall("OidRef", OidRef(lex.tokens, lex.cursor))

NextOids == UpgradeCall \/ OidCall \/ OidRefCall

SpecOids == InitOids /\ [][NextOids]_vars

\* The tokens open a brace and hold a comma before it is closed.
CommaInside(ts) ==
    /\ Len(ts) >= 1
    /\ ts[1].Value = <<"{">>
    /\ \E i \in DOMAIN ts :
          ts[i].Value = <<",">> /\ \A j \in 1..(i - 1) : ts[j].Value # <<"}">>

\* C25: an object identifier value with a comma among its sub-identifiers,
\* also one just before the closing brace as in { iso, }, does not parse.
C25_CommaInOid ==
    (parsed.op = "OidRef" /\ CommaInside(lex.tokens)) => parsed.err

C25_Witness ==
    /\ parsed.op = "OidRef"
    /\ parsed.err
    /\ Len(lex.tokens) = 4
    /\ lex.tokens[2].Value = <<"i", "s", "o">>
    /\ lex.tokens[3].Value = <<",">>
    /\ lex.tokens[4].Value = <<"}">>

\* C26: an Oid that parses holds at least one sub-identifier, and { } does
\* not parse.
C26_OidNonEmpty ==
    /\ (parsed.op = "Oid" /\ ~parsed.err) =>
           /\ parsed.value # <<>>
           /\ parsed.value[1] # <<>>
    /\ (/\ parsed.op = "OidRef"
        /\ Len(lex.tokens) >= 2
        /\ lex.tokens[1].Value = <<"{">>
        /\ lex.tokens[2].Value = <<"}">>) => parsed.err

C26_Witness ==
    \/ /\ parsed.op = "OidRef"
       /\ parsed.err
       /\ Len(lex.tokens) = 2
       /\ lex.tokens[2].Value = <<"}">>
    \/ /\ parsed.op = "Oid"
       /\ ~parsed.err
       /\ Len(parsed.value[1]) = 2

----------------------------------------------------------------------------
(* Sub-identifiers one at a time, with numbers at the edge of 32 bits.     *)

MaxSubIdChunks == 5

SubIdChunks ==
    { <<"4", "2", "9", "4", "9", "6", "7", "2", "9">>, <<"5">>, <<"6">>,
      <<"i", " ">>, <<"(">>, <<")">> }

InitSubIds == InitLexOn(SubIdChunks, MaxSubIdChunks)

SubIdentifierCall == ParseCall("SubIdentifier", SubIdentifier_Parse(lex.tokens, lex.cursor))

NextSubIds == UpgradeCall \/ SubIdentifierCall

SpecSubIds == InitSubIds /\ [][NextSubIds]_vars

\* C27: SubIdentifier.Parse takes exactly one token for a number and for a
\* name that no token of value ( follows; for a name followed by ( it takes
\* the four tokens name ( number ), and fails when the token after ( is
\* not a number or the one after that is not ).
C27_SubIdentifierTokens ==
    (parsed.op = "SubIdentifier" /\ lex.tokens # <<>>) =>
        IF lex.tokens[1].Type = "Int"
          THEN /\ parsed.consumed = 1
               /\ ~parsed.err =>
                      parsed.value = <<[Name |-> <<>>, Number |-> lex.tokens[1].Value]>>
        ELSE IF lex.tokens[1].Type # "Ident" THEN parsed.err
        ELSE IF TokAt(lex.tokens, 1).Value # <<"(">>
          THEN /\ ~parsed.err
               /\ parsed.consumed = 1
               /\ parsed.value = <<[Name |-> lex.tokens[1].Value, Number |-> <<>>]>>
        ELSE IF TokAt(lex.tokens, 2).Type = "Int" /\ TokAt(lex.tokens, 3).Value = <<")">>
          THEN ~parsed.err =>
                   /\ parsed.consumed = 4
                   /\ parsed.value = <<[Name |-> lex.tokens[1].Value,
                                        Number |-> lex.tokens[3].Value]>>
        ELSE parsed.err

C27_Witness ==
    /\ parsed.op = "SubIdentifier"
    /\ parsed.consumed = 4
    /\ ~parsed.err
    /\ Len(lex.tokens) = 5

\* The digits v write a number above 4294967295.
Above32(v) ==
    \/ Len(v) > 10
    \/ Len(v) = 10 /\ ~DigitsLeq(v, <<"4", "2", "9", "4", "9", "6", "7", "2", "9", "5">>)

\* The number token SubIdentifier.Parse reads from the tokens, if any.
NumberToken(ts) ==
    IF ts # <<>> /\ ts[1].Type = "Int" THEN <<ts[1]>>
    ELSE IF /\ Len(ts) >= 3
            /\ ts[1].Type = "Ident"
            /\ ts[2].Value = <<"(">>
            /\ ts[3].Type = "Int" THEN <<ts[3]>>
    ELSE <<>>

\* C28: a numeric sub-identifier is accepted only up to 4294967295; above
\* it the parse fails, and an accepted number is the one written, neither
\* cut nor wrapped.
C28_SubIdentifier32 ==
    (parsed.op = "SubIdentifier" /\ NumberToken(lex.tokens) # <<>>) =>
        /\ Above32(NumberToken(lex.tokens)[1].Value) => parsed.err
        /\ ~parsed.err =>
               parsed.value[1].Number = StripZeros(NumberToken(lex.tokens)[1].Value)

C28_Witness ==
    /\ parsed.op = "SubIdentifier"
    /\ NumberToken(lex.tokens) # <<>>
    /\ parsed.err
    /\ NumberToken(lex.tokens)[1].Value = <<"4", "2", "9", "4", "9", "6", "7", "2", "9", "6">>

----------------------------------------------------------------------------
(* The module name of a MODULE clause of MODULE-COMPLIANCE.                *)

kwMANDATORY_GROUPS ==
    <<"M", "A", "N", "D", "A", "T", "O", "R", "Y", "-", "G", "R", "O", "U", "P", "S">>
kwGROUP == <<"G", "R", "O", "U", "P">>

\* ComplianceModuleName.Parse that takes whatever token comes next.
ComplianceModuleName_ParseNext(ts, c) ==
    IF TokAt(ts, c).Type = "EOF" THEN Matched(c, <<>>)
    ELSE Matched(c + 1, TokAt(ts, c).Value)

\* ComplianceModuleName.Parse: the name is empty before EOF, ::= and the
\* words that start the next clause; any other token is taken as the name.
ComplianceModuleName_Parse(ts, c) ==
    IF TokAt(ts, c).Type = "EOF" THEN Matched(c, <<>>)
    ELSE IF \/ TokAt(ts, c).Type = "Assign"
            \/ TokAt(ts, c).Value \in {kwMANDATORY_GROUPS, kwGROUP, kwOBJECT}
      THEN Matched(c, <<>>)
    ELSE Matched(c + 1, TokAt(ts, c).Value)

MaxComplianceChunks == 3

ComplianceChunks ==
    { <<":", ":", "=">>, kwMANDATORY_GROUPS, kwGROUP, kwOBJECT, kwIDENTIFIER, <<"M", "-", "1">>,
      <<" ">>, <<"\"">>, <<"E", "N", "D">> }

InitCompliance == InitLexOn(ComplianceChunks, MaxComplianceChunks)

ComplianceModuleNameCall ==
    ParseCall("ComplianceModuleName", ComplianceModuleName_Parse(lex.tokens, lex.cursor))

NextCompliance == UpgradeCall \/ ComplianceModuleNameCall

SpecCompliance == InitCompliance /\ [][NextCompliance]_vars

\* C29: before a token of kind Assign or of value MANDATORY-GROUPS, GROUP
\* or OBJECT the compliance module name is empty and the token is left in
\* place; any other token is taken, it alone, and its value is the name.
C29_ComplianceModuleName ==
    (parsed.op = "ComplianceModuleName" /\ lex.tokens # <<>>) =>
        /\ ~parsed.err
        /\ IF \/ lex.tokens[1].Type = "Assign"
              \/ lex.tokens[1].Value \in {kwMANDATORY_GROUPS, kwGROUP, kwOBJECT}
             THEN parsed.value = << <<>> >> /\ parsed.consumed = 0 /\ lex.cursor = 0
           ELSE parsed.value = <<lex.tokens[1].Value>> /\ parsed.consumed = 1 /\ lex.cursor = 1

C29_Witness ==
    /\ parsed.op = "ComplianceModuleName"
    /\ Len(lex.tokens) = 2
    /\ lex.tokens[1].Value = kwGROUP
    /\ lex.cursor = 0

----------------------------------------------------------------------------
(* Macro bodies.                                                           *)

strBEGIN == <<"B", "E", "G", "I", "N">>
strEND == <<"E", "N", "D">>
strTYPE == <<"T", "Y", "P", "E">>
strVALUE == <<"V", "A", "L", "U", "E">>
strNOTATION == <<"N", "O", "T", "A", "T", "I", "O", "N">>

NoMacroBody == [TypeNotation |-> <<>>, ValueNotation |-> <<>>, Tokens |-> make]

\* The switch on tokenName that stores the section gathered so far.
MacroBody_store(m, tokenName, tokenValue) ==
    IF tokenName = <<>> THEN m
    ELSE IF tokenName = strTYPE \o <<" ">> \o strNOTATION THEN [m EXCEPT !.TypeNotation = tokenValue]
    ELSE IF tokenName = strVALUE \o <<" ">> \o strNOTATION THEN [m EXCEPT !.ValueNotation = tokenValue]
    ELSE [m EXCEPT !.Tokens = insert(@, tokenName, tokenValue)]

\* tokenValue with the token added after a space, a Text between quotes.
MacroBody_append(tokenValue, token) ==
    (IF Len(tokenValue) > 0 THEN tokenValue \o <<" ">> ELSE tokenValue)
      \o (IF token.Type = "Text" THEN <<"\"">> \o token.Value \o <<"\"">> ELSE token.Value)

\* The loop of MacroBody.Parse: st holds the cursor c, the current token,
\* tokenName, tokenValue and the body m.
RECURSIVE MacroBody_loop(_, _)
MacroBody_section(ts, st, peeked) ==
    IF (st.token.Value \in {strTYPE, strVALUE}) /\ peeked.Value = strNOTATION
      THEN MacroBody_loop(ts,
             [c |-> lexNext(ts, lexNext(ts, st.c)),
              token |-> TokAt(ts, lexNext(ts, st.c)),
              tokenName |-> st.token.Value \o <<" ">> \o strNOTATION,
              tokenValue |-> <<>>,
              m |-> MacroBody_store(st.m, st.tokenName, st.tokenValue)])
    ELSE IF peeked.Type = "Assign"
      THEN MacroBody_loop(ts,
             [c |-> lexNext(ts, lexNext(ts, st.c)),
              token |-> TokAt(ts, lexNext(ts, st.c)),
              tokenName |-> st.token.Value,
              tokenValue |-> <<>>,
              m |-> MacroBody_store(st.m, st.tokenName, st.tokenValue)])
    ELSE MacroBody_loop(ts,
             [st EXCEPT !.c = lexNext(ts, st.c),
                        !.token = TokAt(ts, st.c),
                        !.tokenValue = MacroBody_append(st.tokenValue, st.token)])

MacroBody_loop(ts, st) ==
    IF st.token.Type = "EOF" THEN Failed(st.c)
    ELSE IF st.token.Value = strEND
      THEN Matched(st.c, MacroBody_store(st.m, st.tokenName, st.tokenValue))
    ELSE MacroBody_section(ts, st, TokAt(ts, st.c))

\* MacroBody.Parse without the test of its first token.
MacroBody_ParseAnyStart(ts, c) ==
    IF TokAt(ts, c).Type = "EOF" THEN Failed(c)
    ELSE MacroBody_loop(ts, [c |-> c + 1, token |-> TokAt(ts, c), tokenName |-> <<>>,
                             tokenValue |-> <<>>, m |-> NoMacroBody])

\* MacroBody.Parse: the loop starts on the token BEGIN itself.
MacroBody_Parse(ts, c) ==
    IF TokAt(ts, c).Type = "EOF" THEN Failed(c)
    ELSE IF TokAt(ts, c).Value # strBEGIN THEN Failed(c + 1)
    ELSE MacroBody_loop(ts, [c |-> c + 1, token |-> TokAt(ts, c), tokenName |-> <<>>,
                             tokenValue |-> <<>>, m |-> NoMacroBody])

\* The loop of the other revision of MacroBody.Parse, which takes its token
\* at the top of each round.
RECURSIVE MacroBody_loopNext(_, _)
MacroBody_sectionNext(ts, st, token, peeked) ==
    IF \/ (token.Value \in {strTYPE, strVALUE}) /\ peeked.Value = strNOTATION
       \/ peeked.Type = "Assign"
      THEN IF peeked.Value = strNOTATION
             THEN MacroBody_loopNext(ts,
                    [st EXCEPT !.c = lexNext(ts, @),
                               !.tokenName = @ \o <<" ">> \o strNOTATION])
           ELSE MacroBody_loopNext(ts,
                    [c |-> lexNext(ts, st.c),
                     tokenName |-> token.Value,
                     tokenValue |-> <<>>,
                     m |-> MacroBody_store(st.m, st.tokenName, st.tokenValue)])
    ELSE MacroBody_loopNext(ts, [st EXCEPT !.tokenValue = MacroBody_append(@, token)])

MacroBody_loopNext(ts, st) ==
    IF TokAt(ts, st.c).Type = "EOF" THEN Failed(st.c)
    ELSE IF TokAt(ts, st.c).Value = strEND
      THEN Matched(st.c + 1, MacroBody_store(st.m, st.tokenName, st.tokenValue))
    ELSE MacroBody_sectionNext(ts, [st EXCEPT !.c = @ + 1], TokAt(ts, st.c), TokAt(ts, st.c + 1))

MacroBody_ParseNext(ts, c) ==
    IF TokAt(ts, c).Type = "EOF" THEN Failed(c)
    ELSE IF TokAt(ts, c).Value # strBEGIN THEN Failed(c + 1)
    ELSE MacroBody_loopNext(ts, [c |-> c + 1, tokenName |-> <<>>, tokenValue |-> <<>>,
                                 m |-> NoMacroBody])

MaxMacroChunks == 5

MacroChunks ==
    { strTYPE \o <<" ">> \o strNOTATION \o <<" ", ":", ":", "=", " ">>,
      strVALUE \o <<" ">> \o strNOTATION \o <<" ", ":", ":", "=", " ">>,
      <<"n", " ", ":", ":", "=", " ">>,
      strEND \o <<" ">>, <<"a", " ">>, <<"\"", "b", "\"", " ">> }

\* Every input starts with BEGIN.
InitMacros ==
    /\ \E input \in InputsOf(MacroChunks, MaxMacroChunks) :
          l = NewLexer(strBEGIN \o <<" ">> \o input)
    /\ tok = NoTok
    /\ prev = NoTok
    /\ calls = "none"
    /\ lexStart = 0
    /\ parity = 0
    /\ twin = NoTwin
    /\ GoIdle
    /\ ParseIdle
    /\ LoaderIdle

MacroBodyCall == ParseCall("MacroBody", MacroBody_Parse(lex.tokens, lex.cursor))

NextMacros == UpgradeCall \/ MacroBodyCall

SpecMacros == InitMacros /\ [][NextMacros]_vars

\* The values of the tokens from..to joined by single spaces.
RECURSIVE JoinValues(_, _, _)
JoinValues(ts, from, to) ==
    IF from > to THEN <<>>
    ELSE IF from = to THEN ts[from].Value
    ELSE ts[from].Value \o <<" ">> \o JoinValues(ts, from + 1, to)

\* The tokens from..to are neither words of the body's frame nor
\* assignments nor quoted text.
PlainTokens(ts, from, to) ==
    \A i \in from..to :
        /\ ts[i].Type \notin {"Assign", "Text"}
        /\ ts[i].Value \notin {strBEGIN, strEND, strTYPE, strVALUE, strNOTATION}

\* At place i the three tokens word NOTATION ::= stand.
NotationAt(ts, i, word) ==
    /\ i + 2 <= Len(ts)
    /\ ts[i].Value = word
    /\ ts[i + 1].Value = strNOTATION
    /\ ts[i + 2].Type = "Assign"

\* BEGIN TYPE NOTATION ::= t1..tn VALUE NOTATION ::= v1..vm END, with the
\* VALUE section starting at place k.
TypeValueBody(ts, k) ==
    /\ Len(ts) >= 8
    /\ ts[1].Value = strBEGIN
    /\ NotationAt(ts, 2, strTYPE)
    /\ k \in 5..(Len(ts) - 3)
    /\ NotationAt(ts, k, strVALUE)
    /\ ts[Len(ts)].Value = strEND
    /\ PlainTokens(ts, 5, k - 1)
    /\ PlainTokens(ts, k + 3, Len(ts) - 1)

\* BEGIN name ::= x1..xn END
NamedBody(ts) ==
    /\ Len(ts) >= 4
    /\ ts[1].Value = strBEGIN
    /\ PlainTokens(ts, 2, 2)
    /\ ts[3].Type = "Assign"
    /\ ts[Len(ts)].Value = strEND
    /\ PlainTokens(ts, 4, Len(ts) - 1)

\* C30: of a macro body BEGIN TYPE NOTATION ::= t1..tn VALUE NOTATION ::=
\* v1..vm END the type notation is t1..tn and the value notation v1..vm,
\* each joined by single spaces, and a section name ::= x1..xn is stored
\* under its name among the other tokens.
C30_MacroBody ==
    parsed.op = "MacroBody" =>
        /\ \A k \in DOMAIN lex.tokens :
               TypeValueBody(lex.tokens, k) =>
                   /\ ~parsed.err
                   /\ parsed.value[1].TypeNotation = JoinValues(lex.tokens, 5, k - 1)
                   /\ parsed.value[1].ValueNotation =
                          JoinValues(lex.tokens, k + 3, Len(lex.tokens) - 1)
        /\ NamedBody(lex.tokens) =>
               /\ ~parsed.err
               /\ lex.tokens[2].Value \in DOMAIN parsed.value[1].Tokens.m
               /\ parsed.value[1].Tokens.m[lex.tokens[2].Value] =
                      JoinValues(lex.tokens, 4, Len(lex.tokens) - 1)

\* A body of named sections alone is stored as written.
C30_NamedSections ==
    (parsed.op = "MacroBody" /\ NamedBody(lex.tokens)) =>
        /\ ~parsed.err
        /\ lex.tokens[2].Value \in DOMAIN parsed.value[1].Tokens.m
        /\ parsed.value[1].Tokens.m[lex.tokens[2].Value] =
               JoinValues(lex.tokens, 4, Len(lex.tokens) - 1)

\* The other revision of MacroBody.Parse on the same bodies.
C30_OtherRevision ==
    parsed.op = "MacroBody" =>
        \A k \in DOMAIN lex.tokens :
            TypeValueBody(lex.tokens, k) =>
                /\ ~MacroBody_ParseNext(lex.tokens, 0).err
                /\ MacroBody_ParseNext(lex.tokens, 0).value.TypeNotation =
                       JoinValues(lex.tokens, 5, k - 1)

----------------------------------------------------------------------------
(* The frame of a macro body: inputs that need not start with BEGIN.       *)

MaxFrameChunks == 5

FrameChunks ==
    { strBEGIN \o <<" ">>, strEND \o <<" ">>, strTYPE \o <<" ">>, strNOTATION \o <<" ">>,
      <<":", ":", "=", " ">>, <<"a", " ">> }

InitFrames == InitLexOn(FrameChunks, MaxFrameChunks)

SpecFrames == InitFrames /\ [][NextMacros]_vars

\* The places after the first of a token of value END.
EndsAfterFirst(ts) == { i \in 2..Len(ts) : ts[i].Value = strEND }

\* The least member of a non-empty set of numbers.
Least(S) == CHOOSE i \in S : \A j \in S : i <= j

\* C31: MacroBody.Parse fails when its first token is not BEGIN and when
\* the input ends before a token of value END; otherwise it succeeds and
\* has taken the tokens up to the first END, that one included, and none
\* after it.
C31_MacroFrame ==
    parsed.op = "MacroBody" =>
        IF lex.tokens = <<>> \/ lex.tokens[1].Value # strBEGIN THEN parsed.err
        ELSE IF EndsAfterFirst(lex.tokens) = {} THEN parsed.err
        ELSE /\ ~parsed.err
             /\ parsed.consumed = Least(EndsAfterFirst(lex.tokens))
             /\ lex.cursor = Least(EndsAfterFirst(lex.tokens))

C31_Witness ==
    /\ parsed.op = "MacroBody"
    /\ ~parsed.err
    /\ parsed.consumed = 4
    /\ Len(lex.tokens) = 5
    /\ lex.tokens[5].Value = strEND

\* The other revision of MacroBody.Parse keeps the same frame.
C31_OtherRevision ==
    parsed.op = "MacroBody" =>
        IF lex.tokens = <<>> \/ lex.tokens[1].Value # strBEGIN
          THEN MacroBody_ParseNext(lex.tokens, 0).err
        ELSE IF EndsAfterFirst(lex.tokens) = {} THEN MacroBody_ParseNext(lex.tokens, 0).err
        ELSE /\ ~MacroBody_ParseNext(lex.tokens, 0).err
             /\ MacroBody_ParseNext(lex.tokens, 0).cursor = Least(EndsAfterFirst(lex.tokens))

----------------------------------------------------------------------------
(* Claims about the keys of the map and the files that are read            *)

\* C32: in the map LoadMibTree returns, every key is the name declared in
\* the module stored under it, whatever the name of the file it came from.
C32_KeysAreDeclaredNames ==
    Success => \A k \in Keys : result.map.m[k].Name = k

\* The root file A.mib declares module B and is stored under B.
C32_Witness ==
    /\ Success
    /\ fs[RootFile].name = "B"
    /\ "B" \in Keys
    /\ "A" \notin Keys
    /\ result.map.m["B"].Imports = fs[RootFile].imports

\* How many times path was handed to os.Open.
TimesOpened(path) == Cardinality({ i \in 1..Len(opened) : opened[i] = path })

\* C39: during one call of LoadMibTree each file is opened and parsed at
\* most once, however many modules import the module it holds.
C39_OpenedOnce == \A i \in 1..Len(opened) : TimesOpened(opened[i]) <= 1

\* The same for the loads where every file declares the name it is found by.
NamedAsFound == \A p \in DOMAIN fs : fs[p].name = p[2]
C39_WhenNamedAsFound == NamedAsFound => C39_OpenedOnce

\* C37: ParseFile on a path where no file is returns a nil module and an
\* error that wraps the file-not-found error, and does not run the parser.
C37_NoSuchFile ==
    (lastParse.path # <<>> /\ lastParse.path \notin DOMAIN fs) =>
        /\ lastParse.module.nil
        /\ Is(lastParse.err, ErrNotExist)
        /\ ~lastParse.parsed

\* The root file is not there, and the load has ended on that.
C37_Witness ==
    /\ loadPc = "done"
    /\ lastParse.path = RootFile
    /\ RootFile \notin DOMAIN fs
    /\ BFile \in DOMAIN fs
    /\ Is(result.err, ErrNotExist)
    /\ opened = <<RootFile>>

----------------------------------------------------------------------------
(* STATUS clauses                                                          *)

strSTATUS == <<"S", "T", "A", "T", "U", "S">>
strCurrent == <<"c", "u", "r", "r", "e", "n", "t">>
strDeprecated == <<"d", "e", "p", "r", "e", "c", "a", "t", "e", "d">>
strObsolete == <<"o", "b", "s", "o", "l", "e", "t", "e">>
strMandatory == <<"m", "a", "n", "d", "a", "t", "o", "r", "y">>
strOptional == <<"o", "p", "t", "i", "o", "n", "a", "l">>

\* `"STATUS" @( a | b | ... )`: nothing when the next token is not STATUS;
\* an error when what follows STATUS is none of the alternatives.
StatusField(ts, c, alternatives) ==
    IF TokAt(ts, c).Value # strSTATUS THEN NoMatch(c)
    ELSE IF InSeq(TokAt(ts, c + 1).Value, alternatives) /\ TokAt(ts, c + 1).Type # "EOF"
      THEN Matched(c + 2, TokAt(ts, c + 1).Value)
    ELSE Failed(c + 1)

\* The Status field of TextualConvention (type.go:13), of AgentCapabilities
\* (compliance.go:35) and of ModuleCompliance (compliance.go:101).
TextualConvention_Status(ts, c) ==
    StatusField(ts, c, <<strCurrent, strDeprecated, strObsolete>>)
AgentCapabilities_Status(ts, c) ==
    StatusField(ts, c, <<strCurrent, strDeprecated, strObsolete>>)
ModuleCompliance_Status(ts, c) ==
    StatusField(ts, c, <<strCurrent, strDeprecated, strObsolete>>)

MaxStatusChunks == 3

StatusChunks ==
    { strSTATUS \o <<" ">>, strCurrent \o <<" ">>, strDeprecated \o <<" ">>,
      strObsolete \o <<" ">>, strMandatory \o <<" ">>, strOptional \o <<" ">>,
      <<"o", "k", " ">> }

InitStatus == InitLexOn(StatusChunks, MaxStatusChunks)

TextualConventionStatusCall ==
    ParseCall("TextualConvention.Status", TextualConvention_Status(lex.tokens, lex.cursor))
AgentCapabilitiesStatusCall ==
    ParseCall("AgentCapabilities.Status", AgentCapabilities_Status(lex.tokens, lex.cursor))
ModuleComplianceStatusCall ==
    ParseCall("ModuleCompliance.Status", ModuleCompliance_Status(lex.tokens, lex.cursor))

NextStatus ==
    \/ UpgradeCall
    \/ TextualConventionStatusCall
    \/ AgentCapabilitiesStatusCall
    \/ ModuleComplianceStatusCall

SpecStatus == InitStatus /\ [][NextStatus]_vars

StatusOps == {"TextualConvention.Status", "AgentCapabilities.Status", "ModuleCompliance.Status"}

\* A STATUS clause was parsed: the keyword and an identifier after it.
StatusClauseParsed ==
    /\ parsed.op \in StatusOps
    /\ Len(lex.tokens) >= 2
    /\ lex.tokens[1].Value = strSTATUS
    /\ lex.tokens[2].Type = "Ident"

\* C33: every STATUS clause accepts each of mandatory, optional, current,
\* deprecated and obsolete, and rejects every other identifier with an error.
C33_StatusValues ==
    StatusClauseParsed =>
        IF lex.tokens[2].Value \in {strMandatory, strOptional, strCurrent, strDeprecated,
                                    strObsolete}
          THEN ~parsed.err /\ parsed.value = <<lex.tokens[2].Value>>
        ELSE parsed.err

\* What the three clauses accept is current, deprecated and obsolete.
C33_ThreeValues ==
    StatusClauseParsed =>
        IF lex.tokens[2].Value \in {strCurrent, strDeprecated, strObsolete}
          THEN ~parsed.err /\ parsed.value = <<lex.tokens[2].Value>>
        ELSE parsed.err

----------------------------------------------------------------------------
(* The DEFVAL of a VARIATION (compliance.go:19) and the DESCRIPTION that   *)
(* has to follow it (compliance.go:20).                                    *)

strDEFVAL == <<"D", "E", "F", "V", "A", "L">>
strDESCRIPTION == <<"D", "E", "S", "C", "R", "I", "P", "T", "I", "O", "N">>

\* The values of the tokens at the cursors from..to-1, one after the other:
\* what a capture of several tokens stores in a string.
RECURSIVE ConcatValues(_, _, _)
ConcatValues(ts, from, to) ==
    IF from >= to THEN <<>>
    ELSE TokAt(ts, from).Value \o ConcatValues(ts, from + 1, to)

\* "-"? Int
Defval_signed(ts, d) ==
    IF TokAt(ts, d).Value = <<"-">>
      THEN IF TokAt(ts, d + 1).Type = "Int" THEN Matched(d + 2, <<>>) ELSE Failed(d + 1)
    ELSE IF TokAt(ts, d).Type = "Int" THEN Matched(d + 1, <<>>)
    ELSE Failed(d)

\* Int+ from an Int on: the cursor after the last of the run.
RECURSIVE Defval_ints(_, _)
Defval_ints(ts, e) ==
    IF TokAt(ts, e).Type = "Int" THEN Defval_ints(ts, e + 1) ELSE e

\* ( "," Ident )* : a comma that no identifier follows is left in place.
RECURSIVE Defval_more(_, _)
Defval_more(ts, x) ==
    IF TokAt(ts, x).Value = <<",">> /\ TokAt(ts, x + 1).Type = "Ident"
      THEN Defval_more(ts, x + 2)
    ELSE x

\* ","?
Defval_comma(ts, x) == IF TokAt(ts, x).Value = <<",">> THEN x + 1 ELSE x

\* ( Ident ( "," Ident )* ","? )? : the cursor after it.
Defval_idents(ts, e) ==
    IF TokAt(ts, e).Type = "Ident" THEN Defval_comma(ts, Defval_more(ts, e + 1)) ELSE e

\* "}" after the list that ended at f; the list began at d + 1.
Defval_bracedClose(ts, d, f) ==
    IF TokAt(ts, f).Value = <<"}">> THEN Matched(f + 1, <<>>)
    ELSE IF f > d + 1 THEN Fatal(f)
    ELSE Failed(d)

\* "{" ( Int+ | ( Ident ( "," Ident )* ","? )? ) "}" at a "{".
Defval_braced(ts, d) ==
    IF TokAt(ts, d + 1).Type = "Int"
      THEN Defval_bracedClose(ts, d, Defval_ints(ts, d + 1))
    ELSE Defval_bracedClose(ts, d, Defval_idents(ts, d + 1))

\* The alternatives of the capture, in their order.
Defval_value(ts, d) ==
    IF ~Defval_signed(ts, d).err THEN Defval_signed(ts, d)
    ELSE IF TokAt(ts, d).Type \in {"BinString", "HexString", "Text", "Ident"}
      THEN Matched(d + 1, <<>>)
    ELSE IF TokAt(ts, d).Value = <<"{">> THEN Defval_braced(ts, d)
    ELSE Failed(d)

\* "}" after the value v, and the string the capture stores.
Defval_close(ts, c, v) ==
    IF v.err \/ TokAt(ts, v.cursor).Value # <<"}">> THEN Fatal(v.cursor)
    ELSE Matched(v.cursor + 1, ConcatValues(ts, c + 2, v.cursor))

\* The field Defval: ( "DEFVAL" "{" @( ... ) "}" )?.  A DEFVAL that no "{"
\* follows is within the lookahead and the field is taken as absent.
AgentCapabilityVariation_Defval(ts, c) ==
    IF TokAt(ts, c).Value # strDEFVAL \/ TokAt(ts, c + 1).Value # <<"{">> THEN NoMatch(c)
    ELSE Defval_close(ts, c, Defval_value(ts, c + 2))

\* The field Description after the Defval d: "DESCRIPTION" @Text.
AgentCapabilityVariation_Description(ts, d) ==
    IF d.err THEN d
    ELSE IF TokAt(ts, d.cursor).Value # strDESCRIPTION THEN Failed(d.cursor)
    ELSE IF TokAt(ts, d.cursor + 1).Type # "Text" THEN Failed(d.cursor + 1)
    ELSE Matched(d.cursor + 2, IF d.matched THEN <<d.value>> ELSE <<>>)

MaxDefvalChunks == 5

DefvalChunks ==
    { <<"{", " ">>, <<"}", " ">>, <<",", " ">>, <<"-", " ">>, <<"5", " ">>, <<"a", " ">>,
      <<"\"", "t", "\"", " ">>, <<"'", "0", "'", "b", " ">> }

DefvalOpen == strDEFVAL \o <<" ", "{", " ">>
DefvalEnd == <<"}", " ">> \o strDESCRIPTION \o <<" ", "\"", "d", "\"">>

\* DEFVAL { payload } DESCRIPTION "d", the payload made of the chunks.
InitDefvals ==
    /\ \E payload \in InputsOf(DefvalChunks, MaxDefvalChunks) :
           l = NewLexer(DefvalOpen \o payload \o DefvalEnd)
    /\ tok = NoTok
    /\ prev = NoTok
    /\ calls = "none"
    /\ lexStart = 0
    /\ parity = 0
    /\ twin = NoTwin
    /\ GoIdle
    /\ ParseIdle
    /\ LoaderIdle

VariationDefvalCall ==
    ParseCall("AgentCapabilityVariation.Defval",
              AgentCapabilityVariation_Description(lex.tokens,
                  AgentCapabilityVariation_Defval(lex.tokens, lex.cursor)))

NextDefvals == UpgradeCall \/ VariationDefvalCall

SpecDefvals == InitDefvals /\ [][NextDefvals]_vars

\* The tokens between `DEFVAL {` and `} DESCRIPTION "d"`.
Payload == SubSeq(lex.tokens, 3, Len(lex.tokens) - 3)

IsPunct(t, v) == t.Type = "Punct" /\ t.Value = v

Braced(p) == Len(p) >= 2 /\ IsPunct(p[1], <<"{">>) /\ IsPunct(p[Len(p)], <<"}">>)

\* { Int+ }
IntList(p) == Braced(p) /\ Len(p) >= 3 /\ \A i \in 2..(Len(p) - 1) : p[i].Type = "Int"

\* { Ident ( , Ident )* ,? }
IdentList(p) ==
    /\ Braced(p)
    /\ Len(p) >= 3
    /\ \A i \in 2..(Len(p) - 1) :
           IF i % 2 = 0 THEN p[i].Type = "Ident" ELSE IsPunct(p[i], <<",">>)

ListedPayload(p) ==
    \/ Len(p) = 1 /\ p[1].Type \in {"Int", "BinString", "HexString", "Text", "Ident"}
    \/ Len(p) = 2 /\ IsPunct(p[1], <<"-">>) /\ p[2].Type = "Int"
    \/ IntList(p)
    \/ IdentList(p)

\* C34: the DEFVAL of a VARIATION is accepted exactly when its payload is a
\* signed integer, a hex or binary string, a text, an identifier, a braced
\* list of one or more integers, or a braced list of one or more identifiers
\* with commas between them and maybe one after the last; every other
\* payload is a parse error.
C34_DefvalPayload ==
    parsed.op = "AgentCapabilityVariation.Defval" => (~parsed.err <=> ListedPayload(Payload))

\* What is accepted besides is the pair of braces with nothing between.
EmptyList(p) == Len(p) = 2 /\ Braced(p)
C34_WithEmptyList ==
    parsed.op = "AgentCapabilityVariation.Defval" =>
        /\ ~parsed.err <=> (ListedPayload(Payload) \/ EmptyList(Payload))
        /\ ~parsed.err =>
               /\ parsed.consumed = Len(lex.tokens)
               /\ parsed.value = << <<ConcatValues(lex.tokens, 2, Len(lex.tokens) - 3)>> >>

----------------------------------------------------------------------------
(* A SyntaxType on its own: a name and what may refine it.                 *)

MaxSyntaxChunks == 3

SyntaxChunks ==
    { <<"T", " ">>, <<"(", "0", ".", ".", "5", ")", " ">>, <<"(", "S", "I", "Z", "E", "(", "5", ")", ")", " ">>, <<"{", "a", "(", "1", ")", "}", " ">>, <<"{", "a", "(", "1", ")", ",", "}", " ">>, <<"(", " ">>, <<"{", " ">> }

InitSyntaxTypes == InitLexOn(SyntaxChunks, MaxSyntaxChunks)

SyntaxTypeCall == ParseCall("SyntaxType", SyntaxType(lex.tokens, lex.cursor, RangeKinds))

NextSyntaxTypes == UpgradeCall \/ SyntaxTypeCall

SpecSyntaxTypes == InitSyntaxTypes /\ [][NextSyntaxTypes]_vars

\* C35: in every SyntaxType that was parsed without error, SubType and Enum
\* are never both set.
C35_SubTypeOrEnum ==
    (parsed.op = "SyntaxType" /\ ~parsed.err /\ parsed.value # <<>>) =>
        ~(parsed.value[1].SubType # <<>> /\ parsed.value[1].Enum # <<>>)

\* T (0..5) {a(1)}: the range is taken, the named numbers are left unread.
C35_Witness ==
    /\ parsed.op = "SyntaxType"
    /\ ~parsed.err
    /\ parsed.value # <<>>
    /\ parsed.value[1].SubType # <<>>
    /\ parsed.value[1].Enum = <<>>
    /\ parsed.consumed = 6
    /\ Len(lex.tokens) > 6
    /\ lex.tokens[7].Value = <<"{">>

\* T {a(1),}: the named numbers are taken and no range is set.
C35_EnumWitness ==
    /\ parsed.op = "SyntaxType"
    /\ ~parsed.err
    /\ parsed.value # <<>>
    /\ parsed.value[1].SubType = <<>>
    /\ Len(parsed.value[1].Enum) = 1

----------------------------------------------------------------------------
(* The text of a DESCRIPTION clause.                                       *)

\* `"DESCRIPTION" @Text` (compliance.go:45): the string is the value the
\* parser's options have given the token.
ComplianceGroup_Description(ts, c) ==
    IF TokAt(ts, c).Value # strDESCRIPTION THEN NoMatch(c)
    ELSE IF TokAt(ts, c + 1).Type # "Text" THEN Failed(c + 1)
    ELSE Matched(c + 2, TokAt(ts, c + 1).Value)

MaxBodyChunks == 4

BodyChunks == { <<"a">>, <<" ">>, <<"\t">>, <<"\n">> }

DescriptionOpen == strDESCRIPTION \o <<" ", "\"">>

\* DESCRIPTION "body", the body made of the chunks.
InitBodies ==
    /\ \E body \in InputsOf(BodyChunks, MaxBodyChunks) :
           l = NewLexer(DescriptionOpen \o body \o <<"\"">>)
    /\ tok = NoTok
    /\ prev = NoTok
    /\ calls = "none"
    /\ lexStart = 0
    /\ parity = 0
    /\ twin = NoTwin
    /\ GoIdle
    /\ ParseIdle
    /\ LoaderIdle

DescriptionCall ==
    ParseCall("ComplianceGroup.Description",
              ComplianceGroup_Description(lex.tokens, lex.cursor))

NextBodies == UpgradeCall \/ DescriptionCall

SpecBodies == InitBodies /\ [][NextBodies]_vars

\* What stands between the quotes.
Body == SubSeq(l.input, Len(DescriptionOpen) + 1, Len(l.input) - 1)

Blank == {" ", "\t"}

\* v with the blanks at the start of each line after the first dropped and
\* every other run of blanks made one space.
RECURSIVE Collapsed(_)
Collapsed(v) ==
    IF v = <<>> THEN <<>>
    ELSE IF Head(v) = "\n"
      THEN <<"\n">> \o Collapsed(SubSeq(v, 2 + ClassRun(v, 1, Blank), Len(v)))
    ELSE IF Head(v) \in Blank
      THEN <<" ">> \o Collapsed(SubSeq(v, 1 + ClassRun(v, 0, Blank), Len(v)))
    ELSE <<Head(v)>> \o Collapsed(Tail(v))

\* The body neither starts nor ends with white space.
Tight(v) == v # <<>> /\ Head(v) \notin goSpace /\ v[Len(v)] \notin goSpace

\* C36: the string stored for a Text-valued clause is what stands between
\* the quotes, with the leading spaces and tabs of each continuation line
\* dropped and every run of in-line white space made a single space.
C36_TextCollapsed ==
    (parsed.op = "ComplianceGroup.Description" /\ ~parsed.err /\ Tight(Body)) =>
        parsed.value = <<Collapsed(Body)>>

\* A body of one line is stored as it stands, its in-line white space kept.
C36_InlineKept ==
    (parsed.op = "ComplianceGroup.Description" /\ ~parsed.err /\ Tight(Body)
         /\ ~InSeq("\n", Body)) =>
        parsed.value = <<Body>>

----------------------------------------------------------------------------
(* The cursor of the hand-written lexer after each call.                   *)

\* C38: every byte that is neither white space nor part of a comment lies in
\* the lexeme of exactly one token: the lexeme of the token returned starts
\* where the gap after the previous token ends, it is not empty, and the
\* cursor stands at its end, so that nothing is skipped and nothing is
\* returned twice; EOF is returned only when nothing is left.
C38_CoveredOnce ==
    calls = "token" =>
        IF tok.Type = "EOF" THEN lexStart = Len(l.input) /\ l.pos = Len(l.input)
        ELSE /\ l.pos > lexStart
             /\ l.pos <= Len(l.input)
             /\ tok.Type # "Text" => tok.Value = SubSeq(l.input, lexStart + 1, l.pos)

\* The same on the inputs in which no byte above 0x7F follows anywhere.
Ascii(s) == \A i \in 1..Len(s) : s[i] \notin Lead2 \cup Lead3 \cup Cont
C38_OnAscii == Ascii(l.input) => C38_CoveredOnce

====
